---- MODULE Spec2Model ----
(***************************************************************************)
(* A model of the Eloquence tree-walking evaluator (evaluator/evaluator.go)*)
(* and of its environment (object/environment.go).                         *)
(*                                                                         *)
(* The heap of environments is a sequence `envs`; an *object.Environment   *)
(* pointer is an index into it (0 is the nil pointer).  Values are tagged  *)
(* records whose tag `t` is the string object.Type() returns.  AST nodes   *)
(* are tagged records whose tag is the Go type name of the node.           *)
(*                                                                         *)
(* Eval is a recursive operator that threads the interpreter state         *)
(*   st = [envs, out, log, stack, fuel, order, panic]                      *)
(* through every call, in the order the Go code makes its calls.  `order` *)
(* is the order in which `range` delivers the entries of a Go map during   *)
(* the evaluation of one top-level statement.  `log`                       *)
(* and `stack` are history (ghost) fields: every call of Eval and of       *)
(* evalBlockStatement appends an "enter" and an "exit" event, so that the  *)
(* call tree of one evaluation can be inspected by the properties.         *)
(* `panic` is the Go run-time panic in progress (GoNil when there is       *)
(* none): nothing in the interpreter recovers, so from the operation that  *)
(* panics on no call of Eval does anything and every call in progress is   *)
(* left with the panic in place of a return value.                         *)
(***************************************************************************)
EXTENDS Integers, Sequences, FiniteSets, TLC

VARIABLES prog, pc, status, result, envs, out, log, lexer, toks, parser, program, repl

evalVars == <<prog, pc, status, result, envs, out, log>>

lexVars == <<lexer, toks>>

parseVars == <<parser, program>>

vars == <<evalVars, lexVars, parseVars, repl>>

(***************************************************************************)
(* Bounds of the model.                                                    *)
(***************************************************************************)
MaxFuel == 6

\* the largest number of pairs of a map literal in the programs evaluated
MaxPairs == 2

(***************************************************************************)
(* object/object.go : values                                               *)
(***************************************************************************)
INTEGER_OBJ == "INTEGER"
BOOLEAN_OBJ == "BOOLEAN"
STRING_OBJ == "STRING"
NULL_OBJ == "NULL"
RETURN_VALUE_OBJ == "RETURN_VALUE"
ERROR_OBJ == "ERROR"
FUNCTION_OBJ == "FUNCTION"
ARRAY_OBJ == "ARRAY"
POINTER_OBJ == "POINTER"
STRUCT_DEF_OBJ == "STRUCT_DEFINITION"
STRUCT_INST_OBJ == "STRUCT_INSTANCE"

\* the Go nil interface value (no object at all)
MAP_OBJ == "MAP"

BUILTIN_OBJ == "BUILTIN"

GoNil == [t |-> "nil"]

\* a Go run-time panic, where the code has an operation that raises one
RuntimePanic(msg) == [t |-> "panic", msg |-> msg]

IsPanic(v) == v.t = "panic"

NULL == [t |-> NULL_OBJ]
TRUE_ == [t |-> BOOLEAN_OBJ, b |-> TRUE]
FALSE_ == [t |-> BOOLEAN_OBJ, b |-> FALSE]

Integer(n) == [t |-> INTEGER_OBJ, n |-> n]
String(s) == [t |-> STRING_OBJ, s |-> s]
ReturnValue(v) == [t |-> RETURN_VALUE_OBJ, val |-> v]
Error(m) == [t |-> ERROR_OBJ, msg |-> m]
Function(params, body, env) == [t |-> FUNCTION_OBJ, params |-> params, body |-> body, env |-> env]
Array(els) == [t |-> ARRAY_OBJ, els |-> els]
Pointer(name, env) == [t |-> POINTER_OBJ, name |-> name, env |-> env]
StructDefinition(name, fields) == [t |-> STRUCT_DEF_OBJ, name |-> name, fields |-> fields]
StructInstance(def, fields) == [t |-> STRUCT_INST_OBJ, def |-> def, vals |-> fields]

Type(obj) == obj.t

\* HashKey.Value is a uint64, written as its eight bytes, lowest first
RECURSIVE LittleEndian(_, _)
LittleEndian(n, k) == IF k = 0 THEN <<>> ELSE <<n % 256>> \o LittleEndian(n \div 256, k - 1)

\* uint64(v) of an int64: the two's-complement bit pattern of v
Uint64(v) ==
  IF v >= 0
    THEN LittleEndian(v, 8)
    ELSE [i \in 1..8 |-> 255 - LittleEndian(0 - v - 1, 8)[i]]

\* a ^ b on bytes
RECURSIVE Xor(_, _)
Xor(a, b) == IF a = 0 /\ b = 0 THEN 0 ELSE ((a + b) % 2) + 2 * Xor(a \div 2, b \div 2)

\* []byte(s) for the strings used as map keys in the programs evaluated
Bytes(s) ==
  CASE s = "" -> <<>>
    [] s = "a" -> <<97>>
    [] s = "b" -> <<98>>
    [] s = "cdjkhbmibeadppof" -> <<99, 100, 106, 107, 104, 98, 109, 105, 98, 101, 97, 100, 112, 112, 111, 102>>
    [] s = "injpccdoejkmbafe" -> <<105, 110, 106, 112, 99, 99, 100, 111, 101, 106, 107, 109, 98, 97, 102, 101>>

\* hash/fnv, New64a: the 64-bit FNV-1a sum starts at the offset basis
\* 0xcbf29ce484222325; Write xors each byte into the sum and multiplies the
\* sum by the prime 0x100000001b3 = 2^40 + 435, modulo 2^64
fnvOffset64 == <<37, 35, 34, 132, 228, 156, 242, 203>>

RECURSIVE fnvTimesPrime64(_, _, _)
fnvTimesPrime64(h, i, carry) ==
  IF i > 8
    THEN <<>>
    ELSE LET t == h[i] * 435 + (IF i > 5 THEN h[i - 5] ELSE 0) + carry
         IN <<t % 256>> \o fnvTimesPrime64(h, i + 1, t \div 256)

RECURSIVE fnvWrite64a(_, _, _)
fnvWrite64a(h, data, i) ==
  IF i > Len(data)
    THEN h
    ELSE LET sum == fnvTimesPrime64([h EXCEPT ![1] = Xor(@, data[i])], 1, 0)
         IN IF Len(sum) = 8 THEN fnvWrite64a(sum, data, i + 1) ELSE sum

Hashable(obj) == Type(obj) \in {INTEGER_OBJ, BOOLEAN_OBJ, STRING_OBJ}

HashKey(obj) ==
  CASE Type(obj) = INTEGER_OBJ -> [Type |-> INTEGER_OBJ, Value |-> Uint64(obj.n)]
    [] Type(obj) = BOOLEAN_OBJ -> [Type |-> BOOLEAN_OBJ, Value |-> Uint64(IF obj.b THEN 1 ELSE 0)]
    [] Type(obj) = STRING_OBJ -> [Type |-> STRING_OBJ, Value |-> fnvWrite64a(fnvOffset64, Bytes(obj.s), 1)]

HashPair(key, value) == [Key |-> key, Value |-> value]

\* Map.Pairs is a function from HashKey to HashPair
Map(pairs) == [t |-> MAP_OBJ, pairs |-> pairs]

NoPairs == [k \in {} |-> HashPair(NULL, NULL)]

RECURSIVE Inspect(_)
RECURSIVE JoinInspect(_, _)
JoinInspect(els, i) ==
  IF i > Len(els) THEN ""
  ELSE Inspect(els[i]) \o (IF i < Len(els) THEN ", " ELSE "") \o JoinInspect(els, i + 1)

Inspect(obj) ==
  CASE obj.t = INTEGER_OBJ -> ToString(obj.n)
    [] obj.t = BOOLEAN_OBJ -> IF obj.b THEN "true" ELSE "false"
    [] obj.t = STRING_OBJ -> obj.s
    [] obj.t = NULL_OBJ -> "none"
    [] obj.t = RETURN_VALUE_OBJ -> Inspect(obj.val)
    [] obj.t = ERROR_OBJ -> "ERROR: " \o obj.msg
    [] obj.t = FUNCTION_OBJ -> "takes(...) { ... }"
    [] obj.t = ARRAY_OBJ -> "[" \o JoinInspect(obj.els, 1) \o "]"
    [] obj.t = POINTER_OBJ -> "pointing to " \o obj.name
    [] obj.t = STRUCT_DEF_OBJ -> "struct " \o obj.name
    [] OTHER -> obj.def.name \o "{...}"

(***************************************************************************)
(* object/environment.go                                                   *)
(***************************************************************************)
EmptyStore == [n \in {} |-> NULL]

NewEnvironment == [store |-> EmptyStore, outer |-> 0]

\* returns the heap with the new scope appended; the new scope's pointer is
\* Len(heap) + 1
NewEnclosedEnvironment(heap, outer) == Append(heap, [store |-> EmptyStore, outer |-> outer])

RECURSIVE Get(_, _, _)
Get(heap, e, name) ==
  IF name \in DOMAIN heap[e].store
    THEN [obj |-> heap[e].store[name], ok |-> TRUE]
    ELSE IF heap[e].outer # 0
           THEN Get(heap, heap[e].outer, name)
           ELSE [obj |-> GoNil, ok |-> FALSE]

RECURSIVE Resolve(_, _, _)
Resolve(heap, e, name) ==
  IF name \in DOMAIN heap[e].store
    THEN e
    ELSE IF heap[e].outer # 0
           THEN Resolve(heap, heap[e].outer, name)
           ELSE 0

\* Set storing into the nearest scope that already binds the name, and into
\* scope e only when no scope does
Set_intoDefiningScope(heap, e, name, val) ==
  LET d == IF Resolve(heap, e, name) # 0 THEN Resolve(heap, e, name) ELSE e
  IN [heap EXCEPT ![d].store =
        [n \in (DOMAIN @) \cup {name} |-> IF n = name THEN val ELSE @[n]]]

Set(heap, e, name, val) ==
  [heap EXCEPT ![e].store =
     [n \in (DOMAIN @) \cup {name} |-> IF n = name THEN val ELSE @[n]]]

(***************************************************************************)
(* object/builtins.go : the registry of native functions.  A Builtin is    *)
(* identified by its name in the registry.  Nothing in evaluator.go refers *)
(* to the registry.                                                        *)
(***************************************************************************)
Builtin(name) == [t |-> BUILTIN_OBJ, name |-> name]

Builtins == {"show", "count", "append", "ask", "upper", "lower", "split", "join", "str"}

GetBuiltin(name) ==
  IF name \in Builtins
    THEN [obj |-> Builtin(name), ok |-> TRUE]
    ELSE [obj |-> GoNil, ok |-> FALSE]

(***************************************************************************)
(* AST nodes (package ast), with the fields evaluator.go reads.            *)
(* node.Name.Value and node.Field.Value are flattened to the name string.  *)
(***************************************************************************)
NoNode == [t |-> "nil"]

IntegerLiteral(n) == [t |-> "IntegerLiteral", Int |-> n]
BooleanLiteral(b) == [t |-> "BooleanLiteral", Bool |-> b]
StringLiteral(s) == [t |-> "StringLiteral", Str |-> s]
NilLiteral == [t |-> "NilLiteral"]
Identifier(name) == [t |-> "Identifier", Id |-> name]
PrefixExpression(op, right) == [t |-> "PrefixExpression", Operator |-> op, Right |-> right]
InfixExpression(left, op, right) == [t |-> "InfixExpression", Left |-> left, Operator |-> op, Right |-> right]
IfExpression(cond, cons, alt) == [t |-> "IfExpression", Condition |-> cond, Consequence |-> cons, Alternative |-> alt]
FunctionLiteral(params, body) == [t |-> "FunctionLiteral", Parameters |-> params, Body |-> body]
CallExpression(fn, args) == [t |-> "CallExpression", Function |-> fn, Arguments |-> args]
IndexExpression(left, index) == [t |-> "IndexExpression", Left |-> left, Index |-> index]
FieldAccessExpression(obj, field) == [t |-> "FieldAccessExpression", Object |-> obj, Field |-> field]
StructInstantiationExpression(name, fields) == [t |-> "StructInstantiationExpression", Name |-> name, Fields |-> fields]
StructField(name, value) == [Name |-> name, Value |-> value]
PointerReferenceExpression(value) == [t |-> "PointerReferenceExpression", Value |-> value]
PointerDereferenceExpression(value) == [t |-> "PointerDereferenceExpression", Value |-> value]
ArrayLiteral(els) == [t |-> "ArrayLiteral", Elements |-> els]

\* MapLiteral.Pairs is a Go map from key node to value node, filled by the
\* parser pair by pair; `pairs` lists its entries in the order the parser
\* inserted them (source order), which the Go map does not keep
MapLiteral(pairs) == [t |-> "MapLiteral", Pairs |-> pairs]

MapPair(key, value) == [Key |-> key, Value |-> value]

BlockStatement(stmts) == [t |-> "BlockStatement", Statements |-> stmts]
AssignmentStatement(name, value) == [t |-> "AssignmentStatement", Name |-> name, Value |-> value]
ExpressionStatement(e) == [t |-> "ExpressionStatement", Expression |-> e]
LoopStatement(cond, body) == [t |-> "LoopStatement", Condition |-> cond, Body |-> body]
PointerAssignmentStatement(name, value) == [t |-> "PointerAssignmentStatement", Name |-> name, Value |-> value]
ReturnStatement(value) == [t |-> "ReturnStatement", ReturnValue |-> value]
ShowStatement(value) == [t |-> "ShowStatement", Value |-> value]
StructDefinitionStatement(name, attrs) == [t |-> "StructDefinitionStatement", Name |-> name, Attributes |-> attrs]
TryCatchStatement(try, catch, finally) == [t |-> "TryCatchStatement", TryBlock |-> try, CatchBlock |-> catch, FinallyBlock |-> finally]
RangeLoopStatement(it, iterable, body) == [t |-> "RangeLoopStatement", Iterator |-> it, Iterable |-> iterable, Body |-> body]

(***************************************************************************)
(* evaluator/evaluator.go : helpers                                        *)
(***************************************************************************)
nativeBool(b) == IF b THEN TRUE_ ELSE FALSE_

isTruthy(obj) == ~(obj = NULL \/ obj = FALSE_)

newError(m) == Error(m)

isError(obj) == IF obj # GoNil THEN Type(obj) = ERROR_OBJ ELSE FALSE

\* the pair (object, state) every evaluation step yields
R(val, st) == [val |-> val, st |-> st]

\* history: one event when an evaluation starts and one when it returns.
\* `up` is the index of the "enter" event of the calling evaluation (0 at the
\* top), `at` the index of the event's own "enter" event; st.stack holds the
\* "enter" indices of the evaluations in progress, innermost last.
Enter(st, node, env) ==
  LET i == Len(st.log) + 1
      up == IF st.stack = <<>> THEN 0 ELSE st.stack[Len(st.stack)]
  IN [st EXCEPT !.stack = Append(@, i),
                !.log = Append(@, [k |-> "enter", at |-> i, up |-> up, node |-> node, env |-> env, val |-> GoNil,
                                       heap |-> st.envs])]

Exit(r, node, env) ==
  LET n == Len(r.st.stack)
      up == IF n <= 1 THEN 0 ELSE r.st.stack[n - 1]
  IN R(r.val, [r.st EXCEPT !.stack = SubSeq(@, 1, n - 1),
                           !.log = Append(@, [k |-> "exit", at |-> r.st.stack[n], up |-> up,
                                                       node |-> node, env |-> env, val |-> r.val,
                                                       heap |-> r.st.envs])])

(***************************************************************************)
(* evaluator/evaluator.go : operators on values                            *)
(***************************************************************************)
evalMinusPrefix(right) ==
  IF Type(right) = INTEGER_OBJ
    THEN Integer(0 - right.n)
    ELSE newError("unknown operator: -" \o Type(right))

evalPrefixExpression(op, right) ==
  CASE op = "!" -> nativeBool(~isTruthy(right))
    [] op \in {"-", "minus"} -> evalMinusPrefix(right)
    [] OTHER -> newError("unknown operator: " \o op \o Type(right))

evalIntegerInfix(op, l, r) ==
  CASE op = "adds" -> Integer(l.n + r.n)
    [] op \in {"subtracts", "minus", "-"} -> Integer(l.n - r.n)
    [] op = "times" -> Integer(l.n * r.n)
    [] op = "divides" ->
         IF r.n = 0
           THEN newError("division by zero")
           ELSE Integer(IF (l.n < 0) = (r.n < 0)
                          THEN (IF l.n < 0 THEN 0 - l.n ELSE l.n) \div (IF r.n < 0 THEN 0 - r.n ELSE r.n)
                          ELSE 0 - ((IF l.n < 0 THEN 0 - l.n ELSE l.n) \div (IF r.n < 0 THEN 0 - r.n ELSE r.n)))
    [] op = "modulo" ->
         \* Go's % panics on a zero divisor; otherwise the remainder of the
         \* truncated division, with the sign of the dividend
         IF r.n = 0
           THEN RuntimePanic("runtime error: integer divide by zero")
           ELSE Integer(IF l.n < 0
                          THEN 0 - ((0 - l.n) % (IF r.n < 0 THEN 0 - r.n ELSE r.n))
                          ELSE l.n % (IF r.n < 0 THEN 0 - r.n ELSE r.n))
    [] op = "equals" -> nativeBool(l.n = r.n)
    [] op = "not_equals" -> nativeBool(l.n # r.n)
    [] op = "greater" -> nativeBool(l.n > r.n)
    [] op = "less" -> nativeBool(l.n < r.n)
    [] op = "greater_equal" -> nativeBool(l.n >= r.n)
    [] op = "less_equal" -> nativeBool(l.n <= r.n)
    [] OTHER -> newError("unknown operator: INTEGER " \o op \o " INTEGER")

evalStringInfix(op, l, r) ==
  CASE op = "adds" -> String(l.s \o r.s)
    [] op = "equals" -> nativeBool(l.s = r.s)
    [] op = "not_equals" -> nativeBool(l.s # r.s)
    [] OTHER -> newError("unknown operator: STRING " \o op \o " STRING")

evalBooleanInfix(op, l, r) ==
  CASE op = "equals" -> nativeBool(l.b = r.b)
    [] op = "not_equals" -> nativeBool(l.b # r.b)
    [] op = "and" -> nativeBool(l.b /\ r.b)
    [] op = "or" -> nativeBool(l.b \/ r.b)
    [] OTHER -> newError("unknown operator: BOOLEAN " \o op \o " BOOLEAN")

evalInfixExpression(op, left, right) ==
  IF Type(left) # Type(right)
    THEN IF (Type(left) = NULL_OBJ \/ Type(right) = NULL_OBJ) /\ op = "equals"
           THEN FALSE_
           ELSE IF (Type(left) = NULL_OBJ \/ Type(right) = NULL_OBJ) /\ op = "not_equals"
                  THEN TRUE_
                  ELSE newError("type mismatch: " \o Type(left) \o " " \o op \o " " \o Type(right))
    ELSE CASE Type(left) = INTEGER_OBJ -> evalIntegerInfix(op, left, right)
           [] Type(left) = STRING_OBJ -> evalStringInfix(op, left, right)
           [] Type(left) = BOOLEAN_OBJ -> evalBooleanInfix(op, left, right)
           [] Type(left) = NULL_OBJ /\ op = "equals" -> TRUE_
           [] Type(left) = NULL_OBJ /\ op = "not_equals" -> FALSE_
           [] OTHER -> newError("unknown operator: " \o Type(left) \o " " \o op \o " " \o Type(right))

evalArrayIndex(array, index) ==
  IF index.n < 0 \/ index.n > Len(array.els) - 1
    THEN NULL
    ELSE array.els[index.n + 1]

evalMapIndex(m, index) ==
  IF ~Hashable(index)
    THEN newError("unusable as map key: " \o Type(index))
    ELSE IF HashKey(index) \notin DOMAIN m.pairs
      THEN NULL
      ELSE m.pairs[HashKey(index)].Value

evalIndexExpression(left, index) ==
  IF Type(left) = ARRAY_OBJ /\ Type(index) = INTEGER_OBJ
    THEN evalArrayIndex(left, index)
    ELSE IF Type(left) = MAP_OBJ
      THEN evalMapIndex(left, index)
      ELSE newError("index operator not supported: " \o Type(left))


(***************************************************************************)
(* evaluator/evaluator.go : the tree walker                                *)
(***************************************************************************)
RECURSIVE Eval(_, _, _)
RECURSIVE mapPairsLoop(_, _, _, _, _, _)
RECURSIVE evalNode(_, _, _)
RECURSIVE evalBlockStatement(_, _, _)
RECURSIVE blockLoop(_, _, _, _, _)
RECURSIVE evalLoopStatement(_, _, _)
RECURSIVE evalTryCatchStatement(_, _, _)
RECURSIVE evalIfExpression(_, _, _)
RECURSIVE applyFunction(_, _, _)
RECURSIVE evalPointerDereference(_, _, _)
RECURSIVE evalPointerAssignment(_, _, _)
RECURSIVE evalStructInstantiation(_, _, _)
RECURSIVE structFieldLoop(_, _, _, _, _, _)
RECURSIVE evalFieldAccess(_, _, _)
RECURSIVE evalExpressions(_, _, _)
RECURSIVE expressionsLoop(_, _, _, _, _)
RECURSIVE evalAssignmentStatement(_, _, _)
RECURSIVE evalReturnStatement(_, _, _)
RECURSIVE evalShowStatement(_, _, _)
RECURSIVE evalCallExpression(_, _, _)
RECURSIVE evalIndexNode(_, _, _)
RECURSIVE evalInfixNode(_, _, _)
RECURSIVE evalPrefixNode(_, _, _)
RECURSIVE evalArrayLiteral(_, _, _)

\* Eval, case *ast.AssignmentStatement
evalAssignmentStatement(node, env, st) ==
  LET r == Eval(node.Value, env, st)
  IN IF isError(r.val)
       THEN r
       ELSE R(r.val, [r.st EXCEPT !.envs = Set(@, env, node.Name, r.val)])

\* Eval, case *ast.ReturnStatement
evalReturnStatement(node, env, st) ==
  LET r == Eval(node.ReturnValue, env, st)
  IN IF isError(r.val) THEN r ELSE R(ReturnValue(r.val), r.st)

\* Eval, case *ast.ShowStatement
evalShowStatement(node, env, st) ==
  LET r == Eval(node.Value, env, st)
  IN IF isError(r.val)
       THEN r
       ELSE IF r.val # NULL
              THEN R(NULL, [r.st EXCEPT !.out = Append(@, Inspect(r.val))])
              ELSE R(NULL, r.st)

\* the loop of evalExpressions: acc is `result`, i the position in exps
expressionsLoop(exps, i, env, st, acc) ==
  IF i > Len(exps)
    THEN R(acc, st)
    ELSE LET r == Eval(exps[i], env, st)
         IN IF isError(r.val)
              THEN R(<<r.val>>, r.st)
              ELSE expressionsLoop(exps, i + 1, env, r.st, Append(acc, r.val))

\* yields R(list of objects, state)
evalExpressions(exps, env, st) == expressionsLoop(exps, 1, env, st, <<>>)

\* applyFunction enclosing the new scope in the scope of the call expression
\* (the caller's) instead of the Function's captured scope
applyFunction_callerScope(fn, args, st) ==
  IF Type(fn) # FUNCTION_OBJ
    THEN R(newError("not a function: " \o Type(fn)), st)
    ELSE IF st.fuel <= 0
      THEN R(newError("<out of fuel>"), [st EXCEPT !.fuel = -1])
      ELSE
        LET heap1 == NewEnclosedEnvironment(st.envs, st.log[st.stack[Len(st.stack)]].env)
            env == Len(heap1)
            bound == {i \in 1..Len(fn.params) : i <= Len(args)}
            store == [n \in {fn.params[i] : i \in bound} |->
                        args[CHOOSE i \in bound :
                               /\ fn.params[i] = n
                               /\ \A j \in bound : fn.params[j] = n => j <= i]]
            heap2 == [heap1 EXCEPT ![env].store = store]
            r == Eval(fn.body, env, [st EXCEPT !.envs = heap2, !.fuel = @ - 1])
        IN IF Type(r.val) = RETURN_VALUE_OBJ
             THEN R(r.val.val, r.st)
             ELSE r

\* applyFunction refusing a call whose number of arguments differs from the
\* function's number of parameters
applyFunction_arityChecked(fn, args, st) ==
  IF Type(fn) # FUNCTION_OBJ
    THEN R(newError("not a function: " \o Type(fn)), st)
    ELSE IF Len(args) # Len(fn.params)
      THEN R(newError("wrong number of arguments"), st)
      ELSE
        LET heap1 == NewEnclosedEnvironment(st.envs, fn.env)
            env == Len(heap1)
            heap2 == [heap1 EXCEPT ![env].store = [n \in {fn.params[i] : i \in 1..Len(args)} |->
                                                     args[CHOOSE i \in 1..Len(args) : fn.params[i] = n]]]
            r == Eval(fn.body, env, [st EXCEPT !.envs = heap2, !.fuel = @ - 1])
        IN IF Type(r.val) = RETURN_VALUE_OBJ
             THEN R(r.val.val, r.st)
             ELSE r

\* applyFunction binding the parameters and running the body in the
\* function's captured scope itself, without a scope for the call
applyFunction_noCallScope(fn, args, st) ==
  IF Type(fn) # FUNCTION_OBJ
    THEN R(newError("not a function: " \o Type(fn)), st)
    ELSE IF st.fuel <= 0
      THEN R(newError("<out of fuel>"), [st EXCEPT !.fuel = -1])
      ELSE
        LET bound == {i \in 1..Len(fn.params) : i <= Len(args)}
            old == st.envs[fn.env].store
            store == [n \in {fn.params[i] : i \in bound} \cup DOMAIN old |->
                        IF n \in {fn.params[i] : i \in bound}
                          THEN args[CHOOSE i \in bound :
                                      /\ fn.params[i] = n
                                      /\ \A j \in bound : fn.params[j] = n => j <= i]
                          ELSE old[n]]
            r == Eval(fn.body, fn.env, [st EXCEPT !.envs[fn.env].store = store, !.fuel = @ - 1])
        IN IF Type(r.val) = RETURN_VALUE_OBJ
             THEN R(r.val.val, r.st)
             ELSE r

applyFunction(fn, args, st) ==
  IF Type(fn) # FUNCTION_OBJ
    THEN R(newError("not a function: " \o Type(fn)), st)
    ELSE IF st.fuel <= 0
      THEN R(newError("<out of fuel>"), [st EXCEPT !.fuel = -1])
      ELSE
        LET heap1 == NewEnclosedEnvironment(st.envs, fn.env)
            env == Len(heap1)
            bound == {i \in 1..Len(fn.params) : i <= Len(args)}
            \* parameters are bound in order; a repeated name keeps the last
            store == [n \in {fn.params[i] : i \in bound} |->
                        args[CHOOSE i \in bound :
                               /\ fn.params[i] = n
                               /\ \A j \in bound : fn.params[j] = n => j <= i]]
            heap2 == [heap1 EXCEPT ![env].store = store]
            r == Eval(fn.body, env, [st EXCEPT !.envs = heap2, !.fuel = @ - 1])
        IN IF Type(r.val) = RETURN_VALUE_OBJ
             THEN R(r.val.val, r.st)
             ELSE r

\* Eval, case *ast.CallExpression
evalCallExpression(node, env, st) ==
  LET f == Eval(node.Function, env, st)
  IN IF isError(f.val)
       THEN f
       ELSE LET a == evalExpressions(node.Arguments, env, f.st)
            IN IF Len(a.val) = 1 /\ isError(a.val[1])
                 THEN R(a.val[1], a.st)
                 ELSE applyFunction(f.val, a.val, a.st)

\* Eval, case *ast.IndexExpression
evalIndexNode(node, env, st) ==
  LET l == Eval(node.Left, env, st)
  IN IF isError(l.val)
       THEN l
       ELSE LET i == Eval(node.Index, env, l.st)
            IN IF isError(i.val)
                 THEN i
                 ELSE R(evalIndexExpression(l.val, i.val), i.st)

\* Eval's InfixExpression case looking at the left operand's Error only after
\* the right operand has been evaluated
evalInfixNode_eager(node, env, st) ==
  LET l == Eval(node.Left, env, st)
      r == Eval(node.Right, env, l.st)
  IN IF isError(l.val)
       THEN R(l.val, r.st)
       ELSE IF isError(r.val)
              THEN r
              ELSE R(evalInfixExpression(node.Operator, l.val, r.val), r.st)

\* Eval, case *ast.InfixExpression
\* Eval's InfixExpression case deciding `false and e` and `true or e` from
\* the left operand alone
evalInfixNode_shortCircuit(node, env, st) ==
  LET l == Eval(node.Left, env, st)
  IN IF isError(l.val)
       THEN l
       ELSE IF (node.Operator = "and" /\ l.val = FALSE_) \/ (node.Operator = "or" /\ l.val = TRUE_)
         THEN l
         ELSE LET r == Eval(node.Right, env, l.st)
              IN IF isError(r.val)
                   THEN r
                   ELSE R(evalInfixExpression(node.Operator, l.val, r.val), r.st)

evalInfixNode(node, env, st) ==
  LET l == Eval(node.Left, env, st)
  IN IF isError(l.val)
       THEN l
       ELSE LET r == Eval(node.Right, env, l.st)
            IN IF isError(r.val)
                 THEN r
                 ELSE R(evalInfixExpression(node.Operator, l.val, r.val), r.st)

\* Eval, case *ast.PrefixExpression
evalPrefixNode(node, env, st) ==
  LET r == Eval(node.Right, env, st)
  IN IF isError(r.val)
       THEN r
       ELSE R(evalPrefixExpression(node.Operator, r.val), r.st)

\* Eval, case *ast.ArrayLiteral
evalArrayLiteral(node, env, st) ==
  LET e == evalExpressions(node.Elements, env, st)
  IN IF Len(e.val) = 1 /\ isError(e.val[1])
       THEN R(e.val[1], e.st)
       ELSE R(Array(e.val), e.st)

\* the loop of evalBlockStatement over b.Statements
\* evalBlockStatement's loop reading only the Return sentinel as an
\* interrupt: an Error lets the following statements run
blockLoop_noErrorStop(stmts, i, env, st, res) ==
  IF i > Len(stmts)
    THEN R(res, st)
    ELSE LET r == Eval(stmts[i], env, st)
         IN IF r.val # GoNil /\ Type(r.val) = RETURN_VALUE_OBJ
              THEN r
              ELSE blockLoop(stmts, i + 1, env, r.st, r.val)

blockLoop(stmts, i, env, st, res) ==
  IF i > Len(stmts)
    THEN R(res, st)
    ELSE LET r == Eval(stmts[i], env, st)
         IN IF r.val # GoNil /\ Type(r.val) \in {RETURN_VALUE_OBJ, ERROR_OBJ}
              THEN r
              ELSE blockLoop(stmts, i + 1, env, r.st, r.val)

evalBlockStatement(b, env, st) ==
  Exit(blockLoop(b.Statements, 1, env, Enter(st, b, env), NULL), b, env)

\* evalLoopStatement evaluating the body of every iteration in a scope of its
\* own, enclosed by the scope of the loop statement
evalLoopStatement_iterationScope(node, env, st) ==
  LET c == Eval(node.Condition, env, st)
  IN IF isError(c.val)
       THEN c
       ELSE IF ~isTruthy(c.val)
         THEN R(NULL, c.st)
         ELSE IF c.st.fuel <= 0
           THEN R(newError("<out of fuel>"), [c.st EXCEPT !.fuel = -1])
           ELSE LET heap1 == NewEnclosedEnvironment(c.st.envs, env)
                    r == Eval(node.Body, Len(heap1), [c.st EXCEPT !.fuel = @ - 1, !.envs = heap1])
                IN IF r.val # GoNil /\ Type(r.val) \in {RETURN_VALUE_OBJ, ERROR_OBJ}
                     THEN r
                     ELSE evalLoopStatement(node, env, r.st)

evalLoopStatement(node, env, st) ==
  LET c == Eval(node.Condition, env, st)
  IN IF isError(c.val)
       THEN c
       ELSE IF ~isTruthy(c.val)
         THEN R(NULL, c.st)
         ELSE IF c.st.fuel <= 0
           THEN R(newError("<out of fuel>"), [c.st EXCEPT !.fuel = -1])
           ELSE LET r == Eval(node.Body, env, [c.st EXCEPT !.fuel = @ - 1])
                IN IF r.val # GoNil /\ Type(r.val) \in {RETURN_VALUE_OBJ, ERROR_OBJ}
                     THEN r
                     ELSE evalLoopStatement(node, env, r.st)

\* evalTryCatchStatement without the `return NULL` of a try statement that has
\* no catch-block: the try-block's Error is the statement's result
evalTryCatchStatement_noCatchRethrows(node, env, st) ==
  LET heap1 == NewEnclosedEnvironment(st.envs, env)
      tryEnv == Len(heap1)
      r == evalBlockStatement(node.TryBlock, tryEnv, [st EXCEPT !.envs = heap1])
  IN IF isError(r.val)
       THEN IF node.CatchBlock # NoNode
              THEN LET heap2 == NewEnclosedEnvironment(r.st.envs, env)
                   IN evalBlockStatement(node.CatchBlock, Len(heap2), [r.st EXCEPT !.envs = heap2])
              ELSE r
       ELSE IF node.FinallyBlock # NoNode
              THEN LET heap3 == NewEnclosedEnvironment(r.st.envs, env)
                       f == evalBlockStatement(node.FinallyBlock, Len(heap3), [r.st EXCEPT !.envs = heap3])
                   IN R(r.val, f.st)
              ELSE r

\* evalTryCatchStatement undoing what a failed try-block stored: the
\* catch-block and what follows see the heap as it was when the try-block
\* started
evalTryCatchStatement_rollback(node, env, st) ==
  LET heap1 == NewEnclosedEnvironment(st.envs, env)
      tryEnv == Len(heap1)
      r == evalBlockStatement(node.TryBlock, tryEnv, [st EXCEPT !.envs = heap1])
      undone == [e \in 1..Len(r.st.envs) |-> IF e < tryEnv THEN st.envs[e] ELSE r.st.envs[e]]
  IN IF isError(r.val)
       THEN IF node.CatchBlock # NoNode
              THEN LET heap2 == NewEnclosedEnvironment(undone, env)
                   IN evalBlockStatement(node.CatchBlock, Len(heap2), [r.st EXCEPT !.envs = heap2])
              ELSE R(NULL, [r.st EXCEPT !.envs = undone])
       ELSE IF node.FinallyBlock # NoNode
              THEN LET heap3 == NewEnclosedEnvironment(r.st.envs, env)
                       f == evalBlockStatement(node.FinallyBlock, Len(heap3), [r.st EXCEPT !.envs = heap3])
                   IN R(r.val, f.st)
              ELSE r

evalTryCatchStatement(node, env, st) ==
  LET heap1 == NewEnclosedEnvironment(st.envs, env)
      tryEnv == Len(heap1)
      r == evalBlockStatement(node.TryBlock, tryEnv, [st EXCEPT !.envs = heap1])
  IN IF isError(r.val)
       THEN IF node.CatchBlock # NoNode
              THEN LET heap2 == NewEnclosedEnvironment(r.st.envs, env)
                   IN evalBlockStatement(node.CatchBlock, Len(heap2), [r.st EXCEPT !.envs = heap2])
              ELSE R(NULL, r.st)
       ELSE IF node.FinallyBlock # NoNode
              THEN LET heap3 == NewEnclosedEnvironment(r.st.envs, env)
                       f == evalBlockStatement(node.FinallyBlock, Len(heap3), [r.st EXCEPT !.envs = heap3])
                   IN R(r.val, f.st)
              ELSE r

evalStructDefinition(node, env, st) ==
  R(NULL, [st EXCEPT !.envs = Set(@, env, node.Name, StructDefinition(node.Name, node.Attributes))])

evalIfExpression(ie, env, st) ==
  LET c == Eval(ie.Condition, env, st)
  IN IF isError(c.val)
       THEN c
       ELSE LET heap1 == NewEnclosedEnvironment(c.st.envs, env)
                scopedEnv == Len(heap1)
                st1 == [c.st EXCEPT !.envs = heap1]
            IN IF isTruthy(c.val)
                 THEN Eval(ie.Consequence, scopedEnv, st1)
                 ELSE IF ie.Alternative # NoNode
                        THEN Eval(ie.Alternative, scopedEnv, st1)
                        ELSE R(NULL, st1)

\* evalPointerReference without the check of the resolved environment: the
\* Pointer is made for the scope the expression is evaluated in
evalPointerReference_unresolved(node, env, st) ==
  IF node.Value.t # "Identifier"
    THEN R(newError("can only point to identifier"), st)
    ELSE LET targetEnv == Resolve(st.envs, env, node.Value.Id)
         IN R(Pointer(node.Value.Id, IF targetEnv = 0 THEN env ELSE targetEnv), st)

\* evalPointerReference recording the scope the expression is evaluated in
\* instead of the scope env.Resolve found
evalPointerReference_currentScope(node, env, st) ==
  IF node.Value.t # "Identifier"
    THEN R(newError("can only point to identifier"), st)
    ELSE LET targetEnv == Resolve(st.envs, env, node.Value.Id)
         IN IF targetEnv = 0
              THEN R(newError("identifier not found: " \o node.Value.Id), st)
              ELSE R(Pointer(node.Value.Id, env), st)

evalPointerReference(node, env, st) ==
  IF node.Value.t # "Identifier"
    THEN R(newError("can only point to identifier"), st)
    ELSE LET targetEnv == Resolve(st.envs, env, node.Value.Id)
         IN IF targetEnv = 0
              THEN R(newError("identifier not found: " \o node.Value.Id), st)
              ELSE R(Pointer(node.Value.Id, targetEnv), st)

evalPointerDereference(node, env, st) ==
  LET r == Eval(node.Value, env, st)
  IN IF isError(r.val)
       THEN r
       ELSE IF Type(r.val) # POINTER_OBJ
         THEN R(newError("cannot dereference non-pointer"), r.st)
         ELSE LET g == Get(r.st.envs, r.val.env, r.val.name)
              IN IF ~g.ok
                   THEN R(newError("dangling pointer: " \o r.val.name), r.st)
                   ELSE R(g.obj, r.st)

\* evalPointerAssignment storing through the scope the statement runs in
\* (env.Set) instead of the Pointer's scope (p.Env.Set)
evalPointerAssignment_localSet(node, env, st) ==
  LET g == Get(st.envs, env, node.Name)
  IN IF ~g.ok
       THEN R(newError("identifier not found: " \o node.Name), st)
       ELSE IF Type(g.obj) # POINTER_OBJ
         THEN R(newError("'" \o node.Name \o "' is not a pointer"), st)
         ELSE LET r == Eval(node.Value, env, st)
              IN IF isError(r.val)
                   THEN r
                   ELSE R(r.val, [r.st EXCEPT !.envs = Set(@, env, g.obj.name, r.val)])

\* evalPointerAssignment resolving the Pointer's name again from the scope
\* the statement runs in, so that a shadowing binding is the one written
evalPointerAssignment_resolveAtWrite(node, env, st) ==
  LET g == Get(st.envs, env, node.Name)
  IN IF ~g.ok
       THEN R(newError("identifier not found: " \o node.Name), st)
       ELSE IF Type(g.obj) # POINTER_OBJ
         THEN R(newError("'" \o node.Name \o "' is not a pointer"), st)
         ELSE LET r == Eval(node.Value, env, st)
              IN IF isError(r.val)
                   THEN r
                   ELSE R(r.val, [r.st EXCEPT !.envs =
                                    Set(@, Resolve(@, env, g.obj.name), g.obj.name, r.val)])

\* evalPointerAssignment evaluating the value before it looks the name up
evalPointerAssignment_valueFirst(node, env, st) ==
  LET r == Eval(node.Value, env, st)
      g == Get(r.st.envs, env, node.Name)
  IN IF isError(r.val)
       THEN r
       ELSE IF ~g.ok
         THEN R(newError("identifier not found: " \o node.Name), r.st)
         ELSE IF Type(g.obj) # POINTER_OBJ
           THEN R(newError("'" \o node.Name \o "' is not a pointer"), r.st)
           ELSE R(r.val, [r.st EXCEPT !.envs = Set(@, g.obj.env, g.obj.name, r.val)])

evalPointerAssignment(node, env, st) ==
  LET g == Get(st.envs, env, node.Name)
  IN IF ~g.ok
       THEN R(newError("identifier not found: " \o node.Name), st)
       ELSE IF Type(g.obj) # POINTER_OBJ
         THEN R(newError("'" \o node.Name \o "' is not a pointer"), st)
         ELSE LET r == Eval(node.Value, env, st)
              IN IF isError(r.val)
                   THEN r
                   ELSE R(r.val, [r.st EXCEPT !.envs = Set(@, g.obj.env, g.obj.name, r.val)])

\* the second loop of evalStructInstantiation, over node.Fields
structFieldLoop(flds, i, env, st, def, fields) ==
  IF i > Len(flds)
    THEN R(StructInstance(def, fields), st)
    ELSE LET r == Eval(flds[i].Value, env, st)
         IN IF isError(r.val)
              THEN r
              ELSE structFieldLoop(flds, i + 1, env, r.st, def,
                     [n \in (DOMAIN fields) \cup {flds[i].Name} |->
                        IF n = flds[i].Name THEN r.val ELSE fields[n]])

evalStructInstantiation(node, env, st) ==
  LET g == Get(st.envs, env, node.Name)
  IN IF ~g.ok
       THEN R(newError("unknown struct: " \o node.Name), st)
       ELSE IF Type(g.obj) # STRUCT_DEF_OBJ
         THEN R(newError(node.Name \o " is not a struct"), st)
         ELSE structFieldLoop(node.Fields, 1, env, st, g.obj,
                [n \in {g.obj.fields[i] : i \in 1..Len(g.obj.fields)} |-> NULL])

evalFieldAccess(node, env, st) ==
  LET l == Eval(node.Object, env, st)
  IN IF isError(l.val)
       THEN l
       ELSE IF Type(l.val) # STRUCT_INST_OBJ
         THEN R(newError("not a struct instance: " \o Type(l.val)), l.st)
         ELSE IF node.Field \notin DOMAIN l.val.vals
           THEN R(newError("struct " \o l.val.def.name \o " has no field " \o node.Field), l.st)
           ELSE R(l.val.vals[node.Field], l.st)

evalIdentifier(node, env, st) ==
  LET g == Get(st.envs, env, node.Id)
  IN IF g.ok THEN R(g.obj, st) ELSE R(newError("identifier not found: " \o node.Id), st)

\* the orders in which `range` can deliver the entries of a Go map of up to
\* MaxPairs entries: the language leaves the order unspecified, so every
\* order; an order lists the positions 1..MaxPairs, and the entries of a
\* smaller map come in the order of their positions in it
RangeOrders ==
  {o \in [1..MaxPairs -> 1..MaxPairs] : \A i, j \in 1..MaxPairs : o[i] = o[j] => i = j}

RangeOrder(order, n) == SelectSeq(order, LAMBDA k : k <= n)

\* the loop of evalMapLiteral: ks lists the positions (in node.Pairs as the
\* parser filled it) in the order `range` delivers them
mapPairsLoop(node, ks, i, env, st, pairs) ==
  IF i > Len(ks)
    THEN R(Map(pairs), st)
    ELSE LET key == Eval(node.Pairs[ks[i]].Key, env, st)
         IN IF isError(key.val)
              THEN key
              ELSE IF ~Hashable(key.val)
                THEN R(newError("unusable as map key: " \o Type(key.val)), key.st)
                ELSE LET val == Eval(node.Pairs[ks[i]].Value, env, key.st)
                     IN IF isError(val.val)
                          THEN val
                          ELSE mapPairsLoop(node, ks, i + 1, env, val.st,
                                 [h \in (DOMAIN pairs) \cup {HashKey(key.val)} |->
                                    IF h = HashKey(key.val)
                                      THEN HashPair(key.val, val.val)
                                      ELSE pairs[h]])

evalMapLiteral(node, env, st) ==
  mapPairsLoop(node, RangeOrder(st.order, Len(node.Pairs)), 1, env, st, NoPairs)

\* the type switch of Eval
evalNode(node, env, st) ==
  CASE node.t = "AssignmentStatement" -> evalAssignmentStatement(node, env, st)
    [] node.t = "ExpressionStatement" -> Eval(node.Expression, env, st)
    [] node.t = "LoopStatement" -> evalLoopStatement(node, env, st)
    [] node.t = "PointerAssignmentStatement" -> evalPointerAssignment(node, env, st)
    [] node.t = "ReturnStatement" -> evalReturnStatement(node, env, st)
    [] node.t = "ShowStatement" -> evalShowStatement(node, env, st)
    [] node.t = "StructDefinitionStatement" -> evalStructDefinition(node, env, st)
    [] node.t = "TryCatchStatement" -> evalTryCatchStatement(node, env, st)
    [] node.t = "CallExpression" -> evalCallExpression(node, env, st)
    [] node.t = "FieldAccessExpression" -> evalFieldAccess(node, env, st)
    [] node.t = "FunctionLiteral" -> R(Function(node.Parameters, node.Body, env), st)
    [] node.t = "IfExpression" -> evalIfExpression(node, env, st)
    [] node.t = "IndexExpression" -> evalIndexNode(node, env, st)
    [] node.t = "InfixExpression" -> evalInfixNode(node, env, st)
    [] node.t = "PointerDereferenceExpression" -> evalPointerDereference(node, env, st)
    [] node.t = "PointerReferenceExpression" -> evalPointerReference(node, env, st)
    [] node.t = "PrefixExpression" -> evalPrefixNode(node, env, st)
    [] node.t = "StructInstantiationExpression" -> evalStructInstantiation(node, env, st)
    [] node.t = "ArrayLiteral" -> evalArrayLiteral(node, env, st)
    [] node.t = "MapLiteral" -> evalMapLiteral(node, env, st)
    [] node.t = "BooleanLiteral" -> R(nativeBool(node.Bool), st)
    [] node.t = "Identifier" -> evalIdentifier(node, env, st)
    [] node.t = "IntegerLiteral" -> R(Integer(node.Int), st)
    [] node.t = "NilLiteral" -> R(NULL, st)
    [] node.t = "StringLiteral" -> R(String(node.Str), st)
    [] OTHER -> R(NULL, st)

\* Eval(node, env): a block is logged by evalBlockStatement, every other
\* node here
Eval(node, env, st) ==
  IF st.panic # GoNil
    THEN R(st.panic, st)
    ELSE IF node.t = "BlockStatement"
      THEN evalBlockStatement(node, env, st)
      ELSE LET r == Exit(evalNode(node, env, Enter(st, node, env)), node, env)
           IN IF IsPanic(r.val) THEN R(r.val, [r.st EXCEPT !.panic = r.val]) ELSE r


(***************************************************************************)
(* evalProgram, one iteration of its loop per step.                        *)
(*   prog    the *ast.Program being evaluated (its Statements)             *)
(*   pc      index of the next top-level statement                         *)
(*   status  "running" inside the loop, "returned" once evalProgram left,  *)
(*           "diverged" when a statement ran past the fuel bound,          *)
(*           "panicked" when a Go run-time panic ended the process         *)
(*   result  evalProgram's variable `result` / its return value            *)
(*   envs    the heap of environments, envs[1] the root environment        *)
(*   out     the lines written to standard output                          *)
(*   log     history: the call trees of the statements evaluated so far,   *)
(*           every event with the heap as it was at that point             *)
(***************************************************************************)
RootEnv == 1

evalProgramInit(p) ==
  /\ prog = p
  /\ pc = 1
  /\ status = "running"
  /\ result = GoNil
  /\ envs = <<NewEnvironment>>
  /\ out = <<>>
  /\ log = <<>>

\* evalProgram's loop without the `return result.Value` of its type switch:
\* a Return sentinel becomes the result, unwrapped, and the loop goes on
evalProgramStep_noReturnStop ==
  /\ status = "running"
  /\ pc <= Len(prog)
  /\ \E order \in RangeOrders :
     LET r == Eval(prog[pc], RootEnv,
                   [envs |-> envs, out |-> out, log |-> log, stack |-> <<>>, fuel |-> MaxFuel,
                    order |-> order, panic |-> GoNil])
     IN /\ result' = (IF r.st.fuel < 0 \/ r.st.panic # GoNil THEN result
                      ELSE IF Type(r.val) = RETURN_VALUE_OBJ THEN r.val.val ELSE r.val)
        /\ status' = (IF r.st.panic # GoNil THEN "panicked"
                      ELSE IF r.st.fuel < 0 THEN "diverged"
                      ELSE IF Type(r.val) = ERROR_OBJ THEN "returned" ELSE "running")
        /\ envs' = r.st.envs
        /\ out' = r.st.out
        /\ log' = r.st.log
  /\ pc' = pc + 1
  /\ UNCHANGED <<prog, lexVars, parseVars, repl>>

\* result = Eval(s, env) and the type switch on it; an evaluation that the
\* fuel bound cut short has not returned and never will within the bound,
\* and one that panicked has ended the process without returning
evalProgramStep ==
  /\ status = "running"
  /\ pc <= Len(prog)
  /\ \E order \in RangeOrders :
     LET r == Eval(prog[pc], RootEnv,
                   [envs |-> envs, out |-> out, log |-> log, stack |-> <<>>, fuel |-> MaxFuel,
                    order |-> order, panic |-> GoNil])
     IN /\ result' = (IF r.st.fuel < 0 \/ r.st.panic # GoNil THEN result
                      ELSE IF Type(r.val) = RETURN_VALUE_OBJ THEN r.val.val ELSE r.val)
        /\ status' = (IF r.st.panic # GoNil THEN "panicked"
                      ELSE IF r.st.fuel < 0 THEN "diverged"
                      ELSE IF Type(r.val) \in {RETURN_VALUE_OBJ, ERROR_OBJ} THEN "returned" ELSE "running")
        /\ envs' = r.st.envs
        /\ out' = r.st.out
        /\ log' = r.st.log
  /\ pc' = pc + 1
  /\ UNCHANGED <<prog, lexVars, parseVars, repl>>

\* the loop is exhausted: return result
evalProgramEnd ==
  /\ status = "running"
  /\ pc > Len(prog)
  /\ status' = "returned"
  /\ UNCHANGED <<prog, pc, result, envs, out, log, lexVars, parseVars, repl>>


(***************************************************************************)
(* The programs evaluated.  A program is a prelude, one statement built by *)
(* nesting a core block in up to two enclosing constructs, and a probe.    *)
(***************************************************************************)
Lit(n) == IntegerLiteral(n)
Id(x) == Identifier(x)
ES(e) == ExpressionStatement(e)
Blk(stmts) == BlockStatement(stmts)
True == BooleanLiteral(TRUE)
False == BooleanLiteral(FALSE)

Contexts == {"if", "else", "while", "fn", "try", "tryC", "tryF", "tryCF", "catch", "finally",
             "assignIf", "arrayEl", "callArg", "returnIf"}

\* the statement that runs block b inside construct c
Wrap(c, b) ==
  CASE c = "if" -> ES(IfExpression(True, Blk(b), NoNode))
    [] c = "else" -> ES(IfExpression(False, Blk(<<>>), Blk(b)))
    [] c = "while" -> LoopStatement(InfixExpression(Id("w"), "less", Lit(2)),
                                    Blk(b \o <<AssignmentStatement("w", InfixExpression(Id("w"), "adds", Lit(1)))>>))
    [] c = "fn" -> ES(CallExpression(FunctionLiteral(<<>>, Blk(b)), <<>>))
    [] c = "try" -> TryCatchStatement(Blk(b), NoNode, NoNode)
    [] c = "tryC" -> TryCatchStatement(Blk(b), Blk(<<ES(Lit(50))>>), NoNode)
    [] c = "tryF" -> TryCatchStatement(Blk(b), NoNode, Blk(<<ES(Lit(60))>>))
    [] c = "tryCF" -> TryCatchStatement(Blk(b), Blk(<<ES(Lit(50))>>), Blk(<<ES(Lit(60))>>))
    [] c = "catch" -> TryCatchStatement(Blk(<<ES(Id("missing"))>>), Blk(b), Blk(<<ES(Lit(60))>>))
    [] c = "finally" -> TryCatchStatement(Blk(<<ES(Lit(40))>>), NoNode, Blk(b))
    [] c = "assignIf" -> AssignmentStatement("y", IfExpression(True, Blk(b), NoNode))
    [] c = "arrayEl" -> AssignmentStatement("a", ArrayLiteral(<<Lit(1), IfExpression(True, Blk(b), NoNode)>>))
    [] c = "callArg" -> ES(CallExpression(FunctionLiteral(<<"v">>, Blk(<<AssignmentStatement("z", Id("v"))>>)),
                                          <<IfExpression(True, Blk(b), NoNode)>>))
    [] c = "returnIf" -> ES(CallExpression(FunctionLiteral(<<>>,
                              Blk(<<ReturnStatement(IfExpression(True, Blk(b), NoNode))>>)), <<>>))

Cores == {"value", "error", "return", "ptrWrite", "assign", "deref", "shadow", "localPtr", "localTarget"}

Core(c) ==
  CASE c = "value" -> <<ES(Lit(1)), ES(Lit(3)), ES(Lit(2))>>
    [] c = "error" -> <<ES(Lit(1)), ES(Id("missing")), ES(Lit(2))>>
    [] c = "return" -> <<ES(Lit(1)), ReturnStatement(Lit(7)), ES(Lit(2))>>
    [] c = "ptrWrite" -> <<ES(Lit(1)), PointerAssignmentStatement("p", Lit(9)), ES(Id("x"))>>
    [] c = "assign" -> <<ES(Lit(1)), AssignmentStatement("x", Lit(8)), ES(Lit(2))>>
    [] c = "deref" -> <<ES(PointerDereferenceExpression(Id("p"))), ES(Lit(2))>>
    [] c = "shadow" -> <<AssignmentStatement("x", Lit(8)), PointerAssignmentStatement("p", Lit(9)),
                         ES(Id("x")), ES(PointerDereferenceExpression(Id("p")))>>
    [] c = "localPtr" -> <<AssignmentStatement("q", PointerReferenceExpression(Id("x"))),
                           PointerAssignmentStatement("q", Lit(11)), ES(Lit(2))>>
    [] c = "localTarget" -> <<AssignmentStatement("x", Lit(8)),
                              AssignmentStatement("q", PointerReferenceExpression(Id("x"))),
                              PointerAssignmentStatement("q", Lit(12)),
                              ES(Id("x"))>>

Prelude ==
  <<AssignmentStatement("x", Lit(5)),
    AssignmentStatement("p", PointerReferenceExpression(Id("x"))),
    AssignmentStatement("w", Lit(0))>>

Probe == <<ES(Id("x"))>>

Nest(c1, c2, core) ==
  LET b0 == Core(core)
      b1 == IF c2 = "none" THEN b0 ELSE <<Wrap(c2, b0)>>
      b2 == IF c1 = "none" THEN b1 ELSE <<Wrap(c1, b1)>>
  IN Prelude \o b2 \o Probe

NestedPrograms ==
  {Nest(c1, c2, core) : c1 \in Contexts \cup {"none"}, c2 \in Contexts \cup {"none"}, core \in Cores}

\* programs whose last statement is one compound expression over a pool of
\* operands: values, failing operands and a call whose body fails
Pool ==
  {Lit(1), Id("missing"), Id("arr"), Id("s"), Id("f"),
   InfixExpression(Lit(1), "adds", True),
   CallExpression(FunctionLiteral(<<>>, Blk(<<ES(Id("missing")), ES(Lit(2))>>)), <<>>)}

Compounds ==
  {PrefixExpression("-", e1) : e1 \in Pool}
  \cup {FieldAccessExpression(e1, "a") : e1 \in Pool}
  \cup {InfixExpression(e1, "adds", e2) : e1 \in Pool, e2 \in Pool}
  \cup {CallExpression(e1, <<e2, Lit(3)>>) : e1 \in Pool, e2 \in Pool}
  \cup {IndexExpression(e1, e2) : e1 \in Pool, e2 \in Pool}
  \cup {ArrayLiteral(<<e1, e2>>) : e1 \in Pool, e2 \in Pool}
  \cup {StructInstantiationExpression("S", <<StructField("a", e1), StructField("b", e2)>>) : e1 \in Pool, e2 \in Pool}

ExprPrelude ==
  <<StructDefinitionStatement("S", <<"a", "b">>),
    AssignmentStatement("s", StructInstantiationExpression("S", <<StructField("a", Lit(4))>>)),
    AssignmentStatement("arr", ArrayLiteral(<<Lit(1), Lit(2)>>)),
    AssignmentStatement("f", FunctionLiteral(<<"u", "v">>, Blk(<<ReturnStatement(Id("u"))>>)))>>

ExprPrograms == {ExprPrelude \o <<ES(e)>> \o Probe : e \in Compounds}

\* programs of up to three top-level statements, among them top-level
\* returns and failing statements followed by assignments; the empty program
TopLevelStatements ==
  {AssignmentStatement("x", Lit(1)),
   AssignmentStatement("x", Lit(2)),
   ReturnStatement(Id("x")),
   ReturnStatement(Lit(7)),
   ES(Id("missing")),
   ES(Id("x")),
   ES(IfExpression(True, Blk(<<ReturnStatement(Lit(3))>>), NoNode))}

MaxTopLevel == 3

TopLevelPrograms ==
  UNION {[1..n -> TopLevelStatements] : n \in 0..MaxTopLevel}

\* closures: a function made inside a call and called from a scope that
\* binds its free variable differently; a function called from a scope that
\* alone binds its free variable; a free variable rebound between the
\* function literal and the call
Fn(params, stmts) == FunctionLiteral(params, Blk(stmts))

Call(f, args) == CallExpression(f, args)

ClosurePrograms ==
  {<<AssignmentStatement("mk", Fn(<<>>, <<AssignmentStatement("a", Lit(1)),
                                         ReturnStatement(Fn(<<"k">>, <<ReturnStatement(Id(v))>>))>>)),
     AssignmentStatement("g", Call(Id("mk"), <<>>)),
     AssignmentStatement("h", Fn(<<>>, <<AssignmentStatement("a", Lit(2)),
                                        AssignmentStatement("b", Lit(4)),
                                        ReturnStatement(Call(Id("g"), <<Lit(6)>>))>>)),
     AssignmentStatement("c", Lit(n)),
     ES(Call(Id("h"), <<>>))>> : v \in {"a", "b", "c", "k", "g"}, n \in {8, 9}}
  \cup
  {<<AssignmentStatement("y", Lit(1)),
     AssignmentStatement("g", Fn(<<>>, <<ReturnStatement(Id("y"))>>)),
     AssignmentStatement("y", Lit(n)),
     ES(Call(Id("g"), <<>>))>> : n \in {1, 2}}

\* calls of every builtin name, a builtin name read after the program
\* assigned to it, and a name that is neither bound nor a builtin
BuiltinPrograms ==
  {<<AssignmentStatement("arr", ArrayLiteral(<<Lit(1), Lit(2)>>)),
     ES(Call(Id(b), <<Id("arr")>>)),
     ES(Id("arr"))>> : b \in Builtins \cup {"nosuch"}}
  \cup
  {<<AssignmentStatement(b, Lit(5)), ES(Id(b))>> : b \in Builtins}

\* for-in loops over an array of three, an empty array, a non-Array, and
\* with a body that returns or fails on its second run
RangeLoopPrograms ==
  {<<AssignmentStatement("nums", it),
     AssignmentStatement("sum", Lit(0)),
     RangeLoopStatement("n", Id("nums"), Blk(body)),
     ES(Id("sum"))>> :
     it \in {ArrayLiteral(<<Lit(10), Lit(20), Lit(30)>>), ArrayLiteral(<<>>), Lit(5)},
     body \in {<<AssignmentStatement("sum", InfixExpression(Id("sum"), "adds", Id("n")))>>,
               <<ES(IfExpression(InfixExpression(Id("n"), "equals", Lit(20)),
                                 Blk(<<ReturnStatement(Id("n"))>>), NoNode))>>,
               <<ES(IfExpression(InfixExpression(Id("n"), "equals", Lit(20)),
                                 Blk(<<ES(Id("missing"))>>), NoNode))>>}}

\* map literals of two pairs over keys and values that succeed, fail, or
\* write through a pointer; the literal is then indexed at key 1
MapKeys == {Lit(1), Lit(2), Id("missingKey")}

MapValues ==
  {Lit(10), Lit(20), Id("missingValue"),
   Call(Fn(<<>>, <<PointerAssignmentStatement("p", Lit(1)), ReturnStatement(Lit(30))>>), <<>>),
   Call(Fn(<<>>, <<PointerAssignmentStatement("p", Lit(2)), ReturnStatement(Lit(40))>>), <<>>)}

MapPrograms ==
  {<<AssignmentStatement("x", Lit(0)),
     AssignmentStatement("p", PointerReferenceExpression(Id("x"))),
     AssignmentStatement("m", MapLiteral(<<MapPair(k1, v1), MapPair(k2, v2)>>)),
     ES(IndexExpression(Id("m"), Lit(1))),
     ES(Id("x"))>> : k1 \in MapKeys, k2 \in MapKeys, v1 \in MapValues, v2 \in MapValues}

\* a struct with fields a and b instantiated with one or two of the names a,
\* b and z (which it does not declare), then read at a, b or z
StructPrograms ==
  {<<StructDefinitionStatement("S", <<"a", "b">>),
     AssignmentStatement("s", StructInstantiationExpression("S", given)),
     ES(FieldAccessExpression(Id("s"), f))>> :
     given \in {<<StructField(n, Lit(4))>> : n \in {"a", "b", "z"}}
               \cup {<<StructField(n1, Lit(4)), StructField(n2, Lit(6))>> :
                       n1 \in {"a", "b", "z"}, n2 \in {"a", "b", "z"}}
               \cup {<<>>},
     f \in {"a", "b", "z"}}

\* truthiness: a value produced by a literal, an operator, or a function
\* call (a user function, and the builtin `show`), used as the condition of
\* an if-expression or of a while-loop or as the operand of `!` or `not`
TruthValues ==
  {Lit(0), Lit(1), StringLiteral(""), ArrayLiteral(<<>>), NilLiteral, True, False,
   InfixExpression(Lit(1), "subtracts", Lit(1)),
   InfixExpression(Lit(1), "less", Lit(0)),
   InfixExpression(Lit(0), "equals", Lit(0)),
   Call(Id("show"), <<Lit(0)>>)}
  \cup {Call(Fn(<<>>, <<ReturnStatement(v)>>), <<>>) : v \in {Lit(0), NilLiteral, False, StringLiteral("")}}

TruthPrograms ==
  {<<AssignmentStatement("r", Lit(0)), use, ES(Id("r"))>> :
     use \in UNION {{ES(IfExpression(v, Blk(<<AssignmentStatement("r", Lit(1))>>),
                                        Blk(<<AssignmentStatement("r", Lit(2))>>))),
                     ES(IfExpression(v, Blk(<<AssignmentStatement("r", Lit(1))>>), NoNode)),
                     LoopStatement(v, Blk(<<ReturnStatement(Lit(7))>>)),
                     ES(PrefixExpression("!", v)),
                     ES(PrefixExpression("not", v))} : v \in TruthValues}}

\* every integer infix operator on every pair of operands drawn from a
\* negative number, zero and two positive numbers, followed by a statement
\* that runs if the operation returned
IntegerOperators ==
  {"adds", "subtracts", "minus", "-", "times", "divides", "modulo", "equals", "not_equals",
   "greater", "less", "greater_equal", "less_equal"}

IntegerOperands == {Lit(0), Lit(2), Lit(7), PrefixExpression("-", Lit(7))}

IntegerPrograms ==
  {<<ES(InfixExpression(l, op, r)), ES(Lit(1))>> :
     l \in IntegerOperands, r \in IntegerOperands, op \in IntegerOperators}

\* `pointing to` a name that is not bound, bound at the root, bound only in
\* the scope of the caller of the function that takes the reference, or
\* bound only in a block that has ended; then a dereference
PointerPrograms ==
  {<<AssignmentStatement("ptr", PointerReferenceExpression(Id(x))),
     ES(PointerDereferenceExpression(Id("ptr")))>> : x \in {"missing", "nothing", "ptr"}}
  \cup
  {<<AssignmentStatement("x", Lit(n)),
     AssignmentStatement("ptr", PointerReferenceExpression(Id(x))),
     ES(PointerDereferenceExpression(Id("ptr")))>> : x \in {"x", "missing"}, n \in {1, 2}}
  \cup
  {<<AssignmentStatement("f", Fn(<<>>, <<ReturnStatement(PointerReferenceExpression(Id(x)))>>)),
     AssignmentStatement("h", Fn(<<"b">>, <<AssignmentStatement("a", Lit(1)),
                                           ReturnStatement(Call(Id("f"), <<>>))>>)),
     AssignmentStatement("ptr", Call(Id("h"), <<Lit(2)>>)),
     ES(PointerDereferenceExpression(Id("ptr")))>> : x \in {"a", "b", "f", "missing"}}
  \cup
  {<<ES(IfExpression(True, Blk(<<AssignmentStatement("x", Lit(1))>>), NoNode)),
     AssignmentStatement("ptr", PointerReferenceExpression(Id("x"))),
     ES(Id("ptr"))>>}

\* an array of three elements and an empty array indexed below, inside and
\* above their range; maps of one or two pairs indexed with keys they hold,
\* with keys of every hashable type they do not hold, and with an Array
IndexPrograms ==
  {<<AssignmentStatement("arr", a), ES(IndexExpression(Id("arr"), i))>> :
     a \in {ArrayLiteral(<<Lit(10), Lit(20), Lit(30)>>), ArrayLiteral(<<>>)},
     i \in {Lit(0), Lit(1), Lit(2), Lit(3), PrefixExpression("-", Lit(1)),
            PrefixExpression("-", Lit(3))}}
  \cup
  {<<AssignmentStatement("m", MapLiteral(ps)), ES(IndexExpression(Id("m"), i))>> :
     ps \in {<<>>,
             <<MapPair(Lit(1), Lit(10))>>,
             <<MapPair(True, Lit(10))>>,
             <<MapPair(StringLiteral("a"), Lit(10)), MapPair(Lit(0), Lit(20))>>,
             <<MapPair(StringLiteral("cdjkhbmibeadppof"), Lit(10))>>},
     i \in {Lit(0), Lit(1), PrefixExpression("-", Lit(1)), True, False,
            StringLiteral(""), StringLiteral("a"), StringLiteral("b"),
            StringLiteral("cdjkhbmibeadppof"), StringLiteral("injpccdoejkmbafe"),
            ArrayLiteral(<<>>)}}

\* a Pointer to a local of a call or to a name bound in an if-block, used
\* after the call or block has ended: written through, then dereferenced;
\* and a Pointer taken inside a call to a name bound at the root
EscapingPointerPrograms ==
  {<<AssignmentStatement("mk", Fn(<<"b">>, <<AssignmentStatement("a", Lit(n)),
                                            ReturnStatement(PointerReferenceExpression(Id(x)))>>)),
     AssignmentStatement("p", Call(Id("mk"), <<Lit(3)>>)),
     w,
     ES(PointerDereferenceExpression(Id("p")))>> :
     x \in {"a", "b", "mk"}, n \in {1, 2},
     w \in {PointerAssignmentStatement("p", Lit(5)), AssignmentStatement("a", Lit(7))}}
  \cup
  {<<AssignmentStatement("q", IfExpression(True, Blk(<<AssignmentStatement("a", Lit(n)),
                                                       ES(PointerReferenceExpression(Id("a")))>>), NoNode)),
     w,
     ES(PointerDereferenceExpression(Id("q")))>> :
     n \in {1, 2}, w \in {PointerAssignmentStatement("q", Lit(5)), AssignmentStatement("a", Lit(7))}}

\* a function of three parameters called with zero to four arguments, its
\* body reading one parameter; the root binds the second parameter's name
ArityPrograms ==
  {<<AssignmentStatement("b", Lit(9)),
     AssignmentStatement("f", Fn(<<"a", "b", "c">>, <<ReturnStatement(Id(x))>>)),
     ES(Call(Id("f"), SubSeq(<<Lit(1), Lit(2), Lit(3), Lit(4)>>, 1, k)))>> :
     x \in {"a", "b", "c"}, k \in 0..4}

\* pointer assignments through a name bound to a Pointer, to an Integer or
\* not at all, of a value that is a literal, fails, or is a call that
\* writes through the Pointer and then returns or fails
PointerAssignmentValues ==
  {Lit(5), Id("missing"),
   Call(Fn(<<>>, <<PointerAssignmentStatement("p", Lit(6)), ReturnStatement(Lit(7))>>), <<>>),
   Call(Fn(<<>>, <<PointerAssignmentStatement("p", Lit(6)), ES(Id("missing"))>>), <<>>)}

PointerAssignmentPrograms ==
  {<<AssignmentStatement("x", Lit(1)),
     AssignmentStatement("p", PointerReferenceExpression(Id("x"))),
     PointerAssignmentStatement(n, e),
     ES(Id("x"))>> : n \in {"p", "x", "nope"}, e \in PointerAssignmentValues}

\* `and` and `or` over a left operand that is true, false or an Integer and
\* a right operand that is a Boolean, fails, or is a call that writes
\* through a Pointer and returns a Boolean
LogicalPrograms ==
  {<<AssignmentStatement("x", Lit(0)),
     AssignmentStatement("p", PointerReferenceExpression(Id("x"))),
     ES(InfixExpression(l, op, r)),
     ES(Id("x"))>> :
     l \in {True, False, Lit(1)}, op \in {"and", "or"},
     r \in {True, False, Id("missing"),
            Call(Fn(<<>>, <<PointerAssignmentStatement("p", Lit(5)), ReturnStatement(True)>>), <<>>),
            Call(Fn(<<>>, <<PointerAssignmentStatement("p", Lit(5)), ReturnStatement(False)>>), <<>>)}}

\* a try-block that writes through a Pointer to a binding of the root,
\* assigns names in its own scope, fails, and would write again; without a
\* catch-block, or with one that does nothing or reads through the Pointer
TryWritePrograms ==
  {<<AssignmentStatement("x", Lit(1)),
     AssignmentStatement("p", PointerReferenceExpression(Id("x"))),
     TryCatchStatement(Blk(<<PointerAssignmentStatement("p", Lit(n)),
                             AssignmentStatement("y", Lit(2)),
                             AssignmentStatement("x", Lit(3)),
                             ES(Id("missing")),
                             PointerAssignmentStatement("p", Lit(8))>>),
                       c, NoNode),
     ES(Id(probe))>> :
     n \in {5, 6},
     c \in {NoNode, Blk(<<ES(Lit(0))>>), Blk(<<ES(PointerDereferenceExpression(Id("p")))>>),
            Blk(<<ES(Id("y"))>>)},
     probe \in {"x", "y"}}

\* a counter: mk returns a closure over its local n that adds its argument
\* to n through a Pointer; two closures from two calls of mk are called in
\* every order three times.  And functions whose second call would read a
\* parameter or a local that only their first call bound.
Counter ==
  Fn(<<>>, <<AssignmentStatement("n", Lit(0)),
             ReturnStatement(Fn(<<"d">>, <<AssignmentStatement("q", PointerReferenceExpression(Id("n"))),
                                          PointerAssignmentStatement("q", InfixExpression(Id("n"), "adds", Id("d"))),
                                          ReturnStatement(Id("n"))>>))>>)

CounterCalls == {Call(Id("c1"), <<Lit(1)>>), Call(Id("c2"), <<Lit(10)>>)}

FreshScopePrograms ==
  {<<AssignmentStatement("mk", Counter),
     AssignmentStatement("c1", Call(Id("mk"), <<>>)),
     AssignmentStatement("c2", Call(Id("mk"), <<>>)),
     ES(k1), ES(k2), ES(k3)>> : k1 \in CounterCalls, k2 \in CounterCalls, k3 \in CounterCalls}
  \cup
  {<<AssignmentStatement("g", Fn(<<"a", "b">>, <<ReturnStatement(Id("b"))>>)),
     ES(Call(Id("g"), <<Lit(1), Lit(2)>>)),
     ES(Call(Id("g"), <<Lit(1)>>))>>,
   <<AssignmentStatement("h", Fn(<<"a">>, <<ES(IfExpression(Id("a"), Blk(<<ReturnStatement(Id("loc"))>>), NoNode)),
                                           AssignmentStatement("loc", Lit(5)),
                                           ReturnStatement(Id("loc"))>>)),
     ES(Call(Id("h"), <<False>>)),
     ES(Call(Id("h"), <<True>>))>>}

Programs ==
  NestedPrograms \cup ExprPrograms \cup TopLevelPrograms \cup ClosurePrograms
    \cup BuiltinPrograms \cup RangeLoopPrograms \cup MapPrograms \cup StructPrograms
    \cup TruthPrograms \cup IntegerPrograms \cup PointerPrograms \cup IndexPrograms
    \cup EscapingPointerPrograms \cup ArityPrograms \cup PointerAssignmentPrograms
    \cup LogicalPrograms \cup TryWritePrograms \cup FreshScopePrograms

\* F applied to the value of e, e evaluated once however often F uses its
\* argument
With(e, F(_)) == CHOOSE y \in {F(v) : v \in {e}} : TRUE

(***************************************************************************)
(* The lexer.  The input is a sequence of characters, each a string of one *)
(* character (every character of the inputs scanned is one byte long, so   *)
(* a position counts characters); Nul stands for the rune 0, which readChar *)
(* also delivers behind the input's end.  position and readPosition count  *)
(* from 0 as in the source: the character at position i is input[i + 1].   *)
(***************************************************************************)
Nul == "\\0"

Letters ==
  {"a", "b", "c", "d", "e", "f", "g", "h", "i", "j", "k", "l", "m", "n", "o", "p", "q",
   "r", "s", "t", "u", "v", "w", "x", "y", "z"}

\* unicode.IsDigit, unicode.IsSpace and isLetter on the characters scanned
IsDigit(ch) == ch \in {"0", "1", "2", "3", "4", "5", "6", "7", "8", "9"}

IsSpace(ch) == ch \in {" ", "\t", "\n", "\r"}

isLetter(ch) == ch \in Letters \/ ch = "_"

\* the string whose characters are those of s: l.input[i:j], string(l.ch)
RECURSIVE Slice(_)
Slice(s) == IF s = <<>> THEN "" ELSE s[1] \o Slice(Tail(s))

Token(type, literal, line, column) ==
  [Type |-> type, Literal |-> literal, Line |-> line, Column |-> column]

keywords ==
  [ident \in {"is", "adds", "subtracts", "times", "divides", "modulo", "minus", "equals",
              "not_equals", "greater", "less", "greater_equal", "less_equal", "and", "or",
              "not", "if", "else", "end", "return", "for", "while", "repeat", "takes",
              "returns", "try", "catch", "throw", "finally", "in", "pointing to",
              "pointing from", "true", "false", "none", "struct", "define", "as", "include"} |->
     CASE ident = "is" -> "IS"
       [] ident = "adds" -> "ADDS"
       [] ident = "subtracts" -> "SUBTRACTS"
       [] ident = "times" -> "TIMES"
       [] ident = "divides" -> "DIVIDES"
       [] ident = "modulo" -> "MODULO"
       [] ident = "minus" -> "MINUS"
       [] ident = "equals" -> "EQUALS"
       [] ident = "not_equals" -> "NOT_EQUALS"
       [] ident = "greater" -> "GREATER"
       [] ident = "less" -> "LESS"
       [] ident = "greater_equal" -> "GREATER_EQUAL"
       [] ident = "less_equal" -> "LESS_EQUAL"
       [] ident = "and" -> "AND"
       [] ident = "or" -> "OR"
       [] ident = "not" -> "NOT"
       [] ident = "if" -> "IF"
       [] ident = "else" -> "ELSE"
       [] ident = "end" -> "END"
       [] ident = "return" -> "RETURN"
       [] ident = "for" -> "FOR"
       [] ident = "while" -> "WHILE"
       [] ident = "repeat" -> "REPEAT"
       [] ident = "takes" -> "TAKES"
       [] ident = "returns" -> "RETURNS"
       [] ident = "try" -> "TRY"
       [] ident = "catch" -> "CATCH"
       [] ident = "throw" -> "THROW"
       [] ident = "finally" -> "FINALLY"
       [] ident = "in" -> "IN"
       [] ident = "pointing to" -> "POINTING_TO"
       [] ident = "pointing from" -> "POINTING_FROM"
       [] ident \in {"true", "false"} -> "BOOL"
       [] ident = "none" -> "NIL"
       [] ident = "struct" -> "STRUCT"
       [] ident = "define" -> "DEFINE"
       [] ident = "as" -> "AS"
       [] ident = "include" -> "INCLUDE"]

LookupIdent(ident) == IF ident \in DOMAIN keywords THEN keywords[ident] ELSE "IDENT"

readChar(l0) ==
  With(l0, LAMBDA l :
    IF l.readPosition >= Len(l.input)
      THEN [l EXCEPT !.ch = Nul, !.position = l.readPosition]
      ELSE LET r == l.input[l.readPosition + 1]
           IN [l EXCEPT !.ch = r,
                        !.position = l.readPosition,
                        !.readPosition = @ + 1,
                        !.line = IF r = "\n" THEN @ + 1 ELSE @,
                        !.column = IF r = "\n" THEN 0 ELSE @ + 1])

peekChar(l) ==
  IF l.readPosition >= Len(l.input) THEN Nul ELSE l.input[l.readPosition + 1]

\* the Lexer struct of Go's zero value: no lexer has been made
NoLexer ==
  [input |-> <<>>, position |-> 0, readPosition |-> 0, ch |-> Nul, line |-> 0, column |-> 0]

New(input) ==
  readChar([input |-> input, position |-> 0, readPosition |-> 0, ch |-> Nul,
            line |-> 1, column |-> 0])

newToken(l, tokenType, literal) == Token(tokenType, literal, l.line, l.column)

RECURSIVE skipWhitespace(_)
skipWhitespace(l0) ==
  With(l0, LAMBDA l : IF IsSpace(l.ch) THEN skipWhitespace(readChar(l)) ELSE l)

RECURSIVE skipToLineEnd(_)
skipToLineEnd(l0) ==
  With(l0, LAMBDA l : IF l.ch # "\n" /\ l.ch # Nul THEN skipToLineEnd(readChar(l)) ELSE l)

skipSingleLineComment(l) == skipWhitespace(skipToLineEnd(l))

\* ok is what skipMultiLineComment returns
RECURSIVE skipMultiLineComment(_)
skipMultiLineComment(l0) ==
  With(l0, LAMBDA l :
    IF l.ch = Nul
      THEN [ok |-> FALSE, l |-> l]
      ELSE IF l.ch = "*" /\ peekChar(l) = "/"
        THEN [ok |-> TRUE, l |-> readChar(readChar(l))]
        ELSE skipMultiLineComment(readChar(l)))

\* the loops `for isLetter(l.ch) || unicode.IsDigit(l.ch)`, `for l.ch == ' '
\* || l.ch == '\t'`, `for isLetter(l.ch)` and `for unicode.IsDigit(l.ch)`
RECURSIVE readLettersAndDigits(_)
readLettersAndDigits(l0) ==
  With(l0, LAMBDA l :
    IF isLetter(l.ch) \/ IsDigit(l.ch) THEN readLettersAndDigits(readChar(l)) ELSE l)

RECURSIVE readSpacesAndTabs(_)
readSpacesAndTabs(l0) ==
  With(l0, LAMBDA l : IF l.ch \in {" ", "\t"} THEN readSpacesAndTabs(readChar(l)) ELSE l)

RECURSIVE readLetters(_)
readLetters(l0) ==
  With(l0, LAMBDA l : IF isLetter(l.ch) THEN readLetters(readChar(l)) ELSE l)

RECURSIVE readDigits(_)
readDigits(l0) ==
  With(l0, LAMBDA l : IF IsDigit(l.ch) THEN readDigits(readChar(l)) ELSE l)

\* s is the string returned, l the lexer afterwards
readIdentifier(l0) ==
  With(readLettersAndDigits(l0), LAMBDA l1 :
    LET literal == Slice(SubSeq(l1.input, l0.position + 1, l1.position))
    IN IF literal = "pointing"
         THEN With(readSpacesAndTabs(l1), LAMBDA l2 :
                With(readLetters(l2), LAMBDA l3 :
                  LET nextWord == Slice(SubSeq(l3.input, l2.position + 1, l3.position))
                  IN IF isLetter(l2.ch) /\ nextWord = "to"
                       THEN [s |-> "pointing to", l |-> l3]
                       ELSE IF isLetter(l2.ch) /\ nextWord = "from"
                         THEN [s |-> "pointing from", l |-> l3]
                         ELSE [s |-> literal,
                               l |-> [l3 EXCEPT !.position = l1.position,
                                                !.readPosition = l1.readPosition,
                                                !.ch = l1.ch,
                                                !.line = l1.line,
                                                !.column = l1.column]]))
         ELSE [s |-> literal, l |-> l1])

\* tok is the token returned, l the lexer afterwards
readNumberToken(l0) ==
  With(readDigits(l0), LAMBDA l1 :
    LET isFloat == l1.ch = "." /\ IsDigit(peekChar(l1))
    IN With(IF isFloat THEN readDigits(readChar(l1)) ELSE l1, LAMBDA l2 :
         [tok |-> Token(IF isFloat THEN "FLOAT" ELSE "INT",
                        Slice(SubSeq(l2.input, l0.position + 1, l2.position)), l0.line, l0.column),
          l |-> l2]))

\* the loop of readString from its readChar on, with `out` as the builder
RECURSIVE readStringLoop(_, _)
readStringLoop(l0, built) ==
  With(readChar(l0), LAMBDA l1 :
    IF l1.ch = "\"" \/ l1.ch = Nul
      THEN [s |-> built, l |-> l1]
      ELSE IF l1.ch = "\\"
        THEN With(readChar(l1), LAMBDA l2 :
               readStringLoop(l2, built \o (CASE l2.ch = "n" -> "\n"
                                              [] l2.ch = "t" -> "\t"
                                              [] l2.ch = "r" -> "\r"
                                              [] OTHER -> l2.ch)))
        ELSE readStringLoop(l1, built \o l1.ch))

readString(l) == readStringLoop(l, "")

readCharLiteral(l0) ==
  With(readChar(l0), LAMBDA l1 : [s |-> l1.ch, l |-> readChar(readChar(l1))])

\* the single-character tokens of NextToken's switch
Punctuation ==
  [ch \in {"-", "!", "(", ")", "[", "]", "{", "}", ",", ":"} |->
     CASE ch = "-" -> "MINUS"
       [] ch = "!" -> "NOT"
       [] OTHER -> ch]

\* tok is the token returned, l the lexer afterwards
RECURSIVE NextToken(_)
NextToken(l0) ==
  With(skipWhitespace(l0), LAMBDA l1 :
    IF l1.ch = "/" /\ peekChar(l1) = "/"
      THEN NextToken(skipSingleLineComment(l1))
      ELSE IF l1.ch = "/" /\ peekChar(l1) = "*"
        THEN With(skipMultiLineComment(readChar(readChar(l1))), LAMBDA c :
               IF ~c.ok
                 THEN [tok |-> newToken(c.l, "ILLEGAL", "unterminated comment"), l |-> c.l]
                 ELSE NextToken(c.l))
        ELSE
          CASE l1.ch \in DOMAIN Punctuation ->
                 [tok |-> newToken(l1, Punctuation[l1.ch], l1.ch), l |-> readChar(l1)]
            [] l1.ch = "." ->
                 IF IsDigit(peekChar(l1))
                   THEN readNumberToken(l1)
                   ELSE [tok |-> newToken(l1, ".", l1.ch), l |-> readChar(l1)]
            [] l1.ch = "\"" ->
                 With(readString(l1), LAMBDA r :
                   [tok |-> Token("STRING", r.s, r.l.line, r.l.column), l |-> readChar(r.l)])
            [] l1.ch = "'" ->
                 With(readCharLiteral(l1), LAMBDA r :
                   [tok |-> Token("CHAR", r.s, r.l.line, r.l.column), l |-> readChar(r.l)])
            [] l1.ch = Nul ->
                 [tok |-> Token("EOF", "", l1.line, l1.column), l |-> readChar(l1)]
            [] OTHER ->
                 IF isLetter(l1.ch)
                   THEN With(readIdentifier(l1), LAMBDA r :
                          [tok |-> Token(LookupIdent(r.s), r.s, l1.line, l1.column), l |-> r.l])
                   ELSE IF IsDigit(l1.ch)
                     THEN readNumberToken(l1)
                     ELSE [tok |-> newToken(l1, "ILLEGAL", l1.ch), l |-> readChar(l1)])

\* the Parser struct of Go's zero value: no parser has been made
NoParser ==
  [l |-> NoLexer, errors |-> <<>>, curToken |-> Token("", "", 0, 0),
   peekTokens |-> <<Token("", "", 0, 0), Token("", "", 0, 0), Token("", "", 0, 0)>>]

\* no session has been started
NoRepl ==
  [in |-> <<>>, env |-> <<>>, debugMode |-> FALSE, state |-> "none", done |-> <<>>]

(***************************************************************************)
(* Scanning an input: one NextToken call per step, as ParseProgram and the *)
(* REPL's token printer make them.  toks keeps every call made: the token  *)
(* returned and the lexer before and after.                                *)
(***************************************************************************)
\* the longest input made of freely chosen characters
MaxInput == 3

\* the most words following `pointing` in an input made of words
MaxWords == 3

\* the calls made with the lexer at the input's end
MaxCallsAtEnd == 2

\* the longest input of the scans whose calls are made under fairness
MaxLiveInput == 2

Alphabet == {"a", "1", " ", "\n", "/", "*", "\"", "'", "@", Nul, ".", "\\", "!"}

Words ==
  {<<" ">>, <<"\t">>, <<"\n">>, <<"t", "o">>, <<"f", "r", "o", "m">>, <<"2">>, <<"x">>, <<"_">>, <<",">>,
   <<"p", "o", "i", "n", "t", "i", "n", "g">>}

RECURSIVE CharInputs(_)
CharInputs(n) ==
  IF n = 0 THEN {<<>>}
  ELSE LET shorter == CharInputs(n - 1)
       IN shorter \cup {Append(s, c) : s \in shorter, c \in Alphabet}

RECURSIVE WordInputs(_)
WordInputs(n) ==
  IF n = 0 THEN {<<"p", "o", "i", "n", "t", "i", "n", "g">>}
  ELSE LET shorter == WordInputs(n - 1)
       IN shorter \cup {s \o w : s \in shorter, w \in Words}

LexInputs == CharInputs(MaxInput) \cup WordInputs(MaxWords)

LexInit ==
  /\ prog = <<>>
  /\ pc = 1
  /\ status = "returned"
  /\ result = GoNil
  /\ envs = <<NewEnvironment>>
  /\ out = <<>>
  /\ log = <<>>
  /\ lexer = NoLexer
  /\ toks = <<>>
  /\ parser = NoParser
  /\ program = NoNode
  /\ repl = NoRepl

\* lexer.New on an input
LexerNew ==
  /\ lexer = NoLexer
  /\ \E input \in LexInputs : lexer' = New(input)
  /\ UNCHANGED <<toks, evalVars, parseVars, repl>>

NextTokenCall ==
  /\ lexer # NoLexer
  /\ Cardinality({i \in 1..Len(toks) : toks[i].from.position >= Len(lexer.input)}) < MaxCallsAtEnd
  /\ LET r == NextToken(lexer)
     IN /\ lexer' = r.l
        /\ toks' = Append(toks, [tok |-> r.tok, from |-> lexer, to |-> r.l])
  /\ UNCHANGED <<evalVars, parseVars, repl>>

LexNext == LexerNew \/ NextTokenCall

LexSpec == LexInit /\ [][LexNext]_vars

\* lexer.New on a short input
LexerNewShort ==
  /\ lexer = NoLexer
  /\ \E input \in CharInputs(MaxLiveInput) : lexer' = New(input)
  /\ UNCHANGED <<toks, evalVars, parseVars, repl>>

LexLiveNext == LexerNewShort \/ NextTokenCall

\* the caller makes its lexer and goes on calling NextToken
LexLive == LexInit /\ [][LexLiveNext]_vars /\ WF_vars(LexLiveNext)

(***************************************************************************)
(* The parser, for the statements `name is expression` and `expression`    *)
(* with identifiers, one-digit integers, prefix and infix operators, calls *)
(* and index expressions: the other statements and the other prefix        *)
(* functions are not modelled, and no input parsed here begins them.  An   *)
(* expression that is Go's nil is NoNode.  An error is kept with its parts *)
(* in place of the formatted message.                                      *)
(***************************************************************************)
LOWEST == 1
EQUALS == 2
LESSGREATER == 3
SUM == 4
PRODUCT == 5
PREFIX == 6
CALL == 7
INDEX == 8

precedences ==
  [type \in {"EQUALS", "NOT_EQUALS", "LESS", "GREATER", "LESS_EQUAL", "GREATER_EQUAL", "ADDS",
             "SUBTRACTS", "MINUS", "TIMES", "DIVIDES", "MODULO", "(", "[", ".", "AND", "OR"} |->
     CASE type \in {"EQUALS", "NOT_EQUALS"} -> EQUALS
       [] type \in {"LESS", "GREATER", "LESS_EQUAL", "GREATER_EQUAL"} -> LESSGREATER
       [] type \in {"ADDS", "SUBTRACTS", "MINUS"} -> SUM
       [] type \in {"TIMES", "DIVIDES", "MODULO"} -> PRODUCT
       [] type = "(" -> CALL
       [] type \in {"[", "."} -> INDEX
       [] type \in {"AND", "OR"} -> LESSGREATER]

\* the token types New registers a prefix function and an infix function for
prefixParseFns ==
  {"IDENT", "INT", "FLOAT", "STRING", "CHAR", "BOOL", "NIL", "NOT", "MINUS", "(", "IF", "TAKES",
   "[", "{", "POINTING_TO", "POINTING_FROM"}

infixParseFns ==
  {"ADDS", "SUBTRACTS", "MINUS", "TIMES", "DIVIDES", "MODULO", "EQUALS", "NOT_EQUALS", "LESS",
   "GREATER", "LESS_EQUAL", "GREATER_EQUAL", "AND", "OR", "(", "[", "."}

nextToken(p0) ==
  With(p0, LAMBDA p :
    With(NextToken(p.l), LAMBDA r :
      [p EXCEPT !.curToken = p.peekTokens[1],
                !.peekTokens = <<p.peekTokens[2], p.peekTokens[3], r.tok>>,
                !.l = r.l]))

\* parser.New
NewParser(l0) ==
  With(NextToken(l0), LAMBDA r1 :
    With(NextToken(r1.l), LAMBDA r2 :
      With(NextToken(r2.l), LAMBDA r3 :
        nextToken([l |-> r3.l, errors |-> <<>>, curToken |-> Token("", "", 0, 0),
                   peekTokens |-> <<r1.tok, r2.tok, r3.tok>>]))))

peekError(p0, t) ==
  With(p0, LAMBDA p :
    [p EXCEPT !.errors = Append(@, [msg |-> "expected next token to be", want |-> t,
                                    got |-> p.peekTokens[1].Type,
                                    Line |-> p.peekTokens[1].Line,
                                    Column |-> p.peekTokens[1].Column])])

\* ok is what expectPeek returns
expectPeek(p0, t) ==
  With(p0, LAMBDA p :
    IF p.peekTokens[1].Type = t
      THEN [ok |-> TRUE, p |-> nextToken(p)]
      ELSE [ok |-> FALSE, p |-> peekError(p, t)])

peekPrecedence(p) ==
  IF p.peekTokens[1].Type \in DOMAIN precedences THEN precedences[p.peekTokens[1].Type] ELSE LOWEST

curPrecedence(p) ==
  IF p.curToken.Type \in DOMAIN precedences THEN precedences[p.curToken.Type] ELSE LOWEST

\* fmt.Sscanf(literal, "%d", &value) on the integer literals parsed
Sscanf(literal) ==
  CASE literal = "0" -> 0 [] literal = "1" -> 1 [] literal = "2" -> 2 [] literal = "3" -> 3
    [] literal = "4" -> 4 [] literal = "5" -> 5 [] literal = "6" -> 6 [] literal = "7" -> 7
    [] literal = "8" -> 8 [] literal = "9" -> 9

\* no `{` follows an identifier in the inputs parsed
parseIdentifier(p) == [e |-> Identifier(p.curToken.Literal), p |-> p]

parseIntegerLiteral(p) == [e |-> IntegerLiteral(Sscanf(p.curToken.Literal)), p |-> p]

RECURSIVE parseExpression(_, _)
RECURSIVE parseExpressionLoop(_, _)
RECURSIVE parseCallArgumentsLoop(_, _)

parsePrefixExpression(p0) ==
  With(p0, LAMBDA p :
    With(parseExpression(nextToken(p), PREFIX), LAMBDA r :
      [e |-> PrefixExpression(p.curToken.Literal, r.e), p |-> r.p]))

parseGroupedExpression(p0) ==
  With(parseExpression(nextToken(p0), LOWEST), LAMBDA r :
    With(expectPeek(r.p, ")"), LAMBDA x :
      [e |-> IF x.ok THEN r.e ELSE NoNode, p |-> x.p]))

parseInfixExpression(p0, left) ==
  With(p0, LAMBDA p :
    With(parseExpression(nextToken(p), curPrecedence(p)), LAMBDA r :
      [e |-> InfixExpression(left, p.curToken.Literal, r.e), p |-> r.p]))

\* the loop `for p.peekTokenIs(token.COMMA)` of parseCallArguments
parseCallArgumentsLoop(p0, args) ==
  With(p0, LAMBDA p :
    IF p.peekTokens[1].Type = ","
      THEN With(parseExpression(nextToken(nextToken(p)), LOWEST), LAMBDA r :
             parseCallArgumentsLoop(r.p, Append(args, r.e)))
      ELSE [args |-> args, p |-> p])

\* a nil slice of arguments is NoNode
parseCallArguments(p0) ==
  With(p0, LAMBDA p :
    IF p.peekTokens[1].Type = ")"
      THEN [args |-> <<>>, p |-> nextToken(p)]
      ELSE With(parseExpression(nextToken(p), LOWEST), LAMBDA r :
             With(parseCallArgumentsLoop(r.p, <<r.e>>), LAMBDA a :
               With(expectPeek(a.p, ")"), LAMBDA x :
                 [args |-> IF x.ok THEN a.args ELSE NoNode, p |-> x.p]))))

parseCallExpression(p0, function) ==
  With(parseCallArguments(p0), LAMBDA a :
    [e |-> CallExpression(function, a.args), p |-> a.p])

parseIndexExpression(p0, left) ==
  With(parseExpression(nextToken(p0), LOWEST), LAMBDA r :
    With(expectPeek(r.p, "]"), LAMBDA x :
      [e |-> IF x.ok THEN IndexExpression(left, r.e) ELSE NoNode, p |-> x.p]))

\* the loop of parseExpression, with leftExp and the parser in r
parseExpressionLoop(r0, precedence) ==
  With(r0, LAMBDA r :
    IF r.p.peekTokens[1].Type # "EOF" /\ precedence < peekPrecedence(r.p)
      THEN IF r.p.peekTokens[1].Type \notin infixParseFns
             THEN r
             ELSE With(nextToken(r.p), LAMBDA p :
                    parseExpressionLoop(
                      CASE p.curToken.Type = "(" -> parseCallExpression(p, r.e)
                        [] p.curToken.Type = "[" -> parseIndexExpression(p, r.e)
                        [] p.curToken.Type \in infixParseFns \ {"(", "[", "."} ->
                             parseInfixExpression(p, r.e),
                      precedence))
      ELSE r)

parseExpression(p0, precedence) ==
  With(p0, LAMBDA p :
    IF p.curToken.Type \notin prefixParseFns
      THEN [e |-> NoNode,
            p |-> [p EXCEPT !.errors = Append(@, [msg |-> "no prefix parse function for",
                                                  want |-> "", got |-> p.curToken.Type,
                                                  Line |-> 0, Column |-> 0])]]
      ELSE parseExpressionLoop(
             CASE p.curToken.Type = "IDENT" -> parseIdentifier(p)
               [] p.curToken.Type = "INT" -> parseIntegerLiteral(p)
               [] p.curToken.Type \in {"NOT", "MINUS"} -> parsePrefixExpression(p)
               [] p.curToken.Type = "(" -> parseGroupedExpression(p),
             precedence))

\* s is the statement, p the parser afterwards
parseAssignmentStatement(p0) ==
  With(p0, LAMBDA p :
    With(expectPeek(p, "IS"), LAMBDA x :
      With(parseExpression(nextToken(x.p), LOWEST), LAMBDA r :
        [s |-> AssignmentStatement(p.curToken.Literal, r.e), p |-> r.p])))

parseExpressionStatement(p0) ==
  With(parseExpression(p0, LOWEST), LAMBDA r : [s |-> ExpressionStatement(r.e), p |-> r.p])

parseStatement(p0) ==
  With(p0, LAMBDA p :
    CASE p.curToken.Type \notin {"RETURN", "DEFINE", "WHILE", "REPEAT", "FOR", "POINTING_FROM",
                                 "TRY", "INCLUDE"} ->
           IF p.curToken.Type = "IDENT" /\ p.peekTokens[1].Type = "IS"
             THEN parseAssignmentStatement(p)
             ELSE parseExpressionStatement(p))

\* the loop of ParseProgram
RECURSIVE ParseProgramLoop(_, _)
ParseProgramLoop(p0, statements) ==
  With(p0, LAMBDA p :
    IF p.curToken.Type = "EOF"
      THEN [program |-> [Statements |-> statements], p |-> p]
      ELSE With(parseStatement(p), LAMBDA r :
             ParseProgramLoop(nextToken(r.p), Append(statements, r.s))))

ParseProgram(p) == ParseProgramLoop(p, <<>>)

(***************************************************************************)
(* Parsing an input: parser.New on a lexer of the input, then ParseProgram. *)
(***************************************************************************)
\* the most infix operators in an input
MaxOperators == 3

InfixWords ==
  {<<"e", "q", "u", "a", "l", "s">>,
   <<"n", "o", "t", "_", "e", "q", "u", "a", "l", "s">>,
   <<"a", "n", "d">>,
   <<"o", "r">>,
   <<"l", "e", "s", "s">>,
   <<"g", "r", "e", "a", "t", "e", "r", "_", "e", "q", "u", "a", "l">>,
   <<"a", "d", "d", "s">>,
   <<"m", "i", "n", "u", "s">>,
   <<"t", "i", "m", "e", "s">>,
   <<"m", "o", "d", "u", "l", "o">>}

\* what an input begins with: an operand with or without a prefix operator,
\* a call, an index expression
FirstOperands ==
  {<<"a">>, <<"!", "a">>, <<"-", "a">>, <<"a", "(", ")">>, <<"-", "a", "(", "i", ",", "1", ")">>,
   <<"a", "[", "i", "]">>, <<"!", "a", "[", "1", "]", "(", ")">>,
   <<"x", " ", "i", "s", " ", "a">>, <<"x", " ", "i", "s", " ", "!", "a">>}

\* the operand behind the k-th operator
Operand(k) == <<"b", "c", "d", "e", "f">>[k]

RECURSIVE ParseInputs(_)
ParseInputs(n) ==
  IF n = 0 THEN FirstOperands
  ELSE LET shorter == ParseInputs(n - 1)
       IN shorter \cup {s \o <<" ">> \o w \o <<" ", Operand(n)>> :
                          s \in {t \in shorter : t[Len(t)] = (IF n = 1 THEN t[Len(t)] ELSE Operand(n - 1))},
                          w \in InfixWords}

ParseInit ==
  /\ prog = <<>>
  /\ pc = 1
  /\ status = "returned"
  /\ result = GoNil
  /\ envs = <<NewEnvironment>>
  /\ out = <<>>
  /\ log = <<>>
  /\ lexer = NoLexer
  /\ toks = <<>>
  /\ parser = NoParser
  /\ program = NoNode
  /\ repl = NoRepl

\* newParser of the parser's tests
newParser ==
  /\ parser = NoParser
  /\ \E input \in ParseInputs(MaxOperators) : parser' = NewParser(New(input))
  /\ UNCHANGED <<program, evalVars, lexVars, repl>>

ParseProgramCall ==
  /\ parser # NoParser
  /\ program = NoNode
  /\ LET r == ParseProgram(parser)
     IN /\ parser' = r.p
        /\ program' = r.program
  /\ UNCHANGED <<evalVars, lexVars, repl>>

ParseNext == newParser \/ ParseProgramCall

ParseSpec == ParseInit /\ [][ParseNext]_vars

(***************************************************************************)
(* The REPL.  Its input is a sequence of lines, each a sequence of         *)
(* characters without its newline, as bufio.Scanner delivers them; env is  *)
(* the heap of the session's environment, whose root scope is RootEnv.     *)
(* What is written to `out` is kept as the list `done` of the lines read,  *)
(* each with what the loop did with it and the value it evaluated to.      *)
(***************************************************************************)
RECURSIVE TrimLeft(_)
TrimLeft(s) == IF s # <<>> /\ IsSpace(s[1]) THEN TrimLeft(Tail(s)) ELSE s

RECURSIVE TrimRight(_)
TrimRight(s) ==
  IF s # <<>> /\ IsSpace(s[Len(s)]) THEN TrimRight(SubSeq(s, 1, Len(s) - 1)) ELSE s

\* strings.TrimSpace
TrimSpace(s) == TrimRight(TrimLeft(s))

\* evalProgram from statement i on, with the result so far
RECURSIVE evalProgramLoop(_, _, _, _)
evalProgramLoop(statements, i, res, st) ==
  IF i > Len(statements)
    THEN R(res, st)
    ELSE With(Eval(statements[i], RootEnv, st), LAMBDA r :
           IF r.st.panic # GoNil \/ r.st.fuel < 0
             THEN r
             ELSE IF Type(r.val) = RETURN_VALUE_OBJ
               THEN R(r.val.val, r.st)
               ELSE IF Type(r.val) = ERROR_OBJ
                 THEN r
                 ELSE evalProgramLoop(statements, i + 1, r.val, r.st))

evalProgram(p, heap, order) ==
  evalProgramLoop(p.Statements, 1, GoNil,
                  [envs |-> heap, out |-> <<>>, log |-> <<>>, stack |-> <<>>, fuel |-> MaxFuel,
                   order |-> order, panic |-> GoNil])

\* what one line read did, and the session's environment behind it
Done(line, did, val, heap) == [line |-> line, did |-> did, val |-> val, env |-> heap]

\* one turn of Start's loop on a line the scanner delivered, with an
\* environment made anew for every line
replLine_envPerLine(r, text, order) ==
  With(TrimSpace(text), LAMBDA line :
    LET rest == [r EXCEPT !.in = Tail(@)]
    IN IF line = <<>>
         THEN [rest EXCEPT !.done = Append(@, Done(text, "blank", GoNil, r.env))]
         ELSE IF line[1] = "."
           THEN CASE Slice(line) = ".exit" ->
                       [rest EXCEPT !.state = "returned",
                                    !.done = Append(@, Done(text, "exit", GoNil, r.env))]
                  [] Slice(line) = ".clear" ->
                       [rest EXCEPT !.env = <<NewEnvironment>>,
                                    !.done = Append(@, Done(text, "clear", GoNil, <<NewEnvironment>>))]
                  [] Slice(line) = ".debug" ->
                       [rest EXCEPT !.debugMode = ~@,
                                    !.done = Append(@, Done(text, "debug", GoNil, r.env))]
                  [] Slice(line) = ".help" ->
                       [rest EXCEPT !.done = Append(@, Done(text, "help", GoNil, r.env))]
                  [] OTHER ->
                       [rest EXCEPT !.done = Append(@, Done(text, "unknown command", GoNil, r.env))]
           ELSE With(ParseProgram(NewParser(New(line))), LAMBDA parsed :
                  IF Len(parsed.p.errors) # 0
                    THEN [rest EXCEPT !.done = Append(@, Done(text, "parser errors", GoNil, r.env))]
                    ELSE With(evalProgram(parsed.program, <<NewEnvironment>>, order), LAMBDA e :
                           IF e.st.panic # GoNil
                             THEN [rest EXCEPT !.state = "panicked", !.env = e.st.envs,
                                               !.done = Append(@, Done(text, "panicked", e.val,
                                                                       e.st.envs))]
                             ELSE [rest EXCEPT !.env = e.st.envs,
                                               !.done = Append(@, Done(text, "evaluated", e.val,
                                                                       e.st.envs))])))

\* one turn of Start's loop on a line the scanner delivered
replLine(r, text, order) ==
  With(TrimSpace(text), LAMBDA line :
    LET rest == [r EXCEPT !.in = Tail(@)]
    IN IF line = <<>>
         THEN [rest EXCEPT !.done = Append(@, Done(text, "blank", GoNil, r.env))]
         ELSE IF line[1] = "."
           THEN CASE Slice(line) = ".exit" ->
                       [rest EXCEPT !.state = "returned",
                                    !.done = Append(@, Done(text, "exit", GoNil, r.env))]
                  [] Slice(line) = ".clear" ->
                       [rest EXCEPT !.env = <<NewEnvironment>>,
                                    !.done = Append(@, Done(text, "clear", GoNil, <<NewEnvironment>>))]
                  [] Slice(line) = ".debug" ->
                       [rest EXCEPT !.debugMode = ~@,
                                    !.done = Append(@, Done(text, "debug", GoNil, r.env))]
                  [] Slice(line) = ".help" ->
                       [rest EXCEPT !.done = Append(@, Done(text, "help", GoNil, r.env))]
                  [] OTHER ->
                       [rest EXCEPT !.done = Append(@, Done(text, "unknown command", GoNil, r.env))]
           ELSE With(ParseProgram(NewParser(New(line))), LAMBDA parsed :
                  IF Len(parsed.p.errors) # 0
                    THEN [rest EXCEPT !.done = Append(@, Done(text, "parser errors", GoNil, r.env))]
                    ELSE With(evalProgram(parsed.program, r.env, order), LAMBDA e :
                           IF e.st.panic # GoNil
                             THEN [rest EXCEPT !.state = "panicked", !.env = e.st.envs,
                                               !.done = Append(@, Done(text, "panicked", e.val,
                                                                       e.st.envs))]
                             ELSE [rest EXCEPT !.env = e.st.envs,
                                               !.done = Append(@, Done(text, "evaluated", e.val,
                                                                       e.st.envs))])))

\* the most lines of a session
MaxLines == 4

Lines ==
  {<<"x", " ", "i", "s", " ", "5">>,
   <<"x">>,
   <<"y", " ", "i", "s", " ", "x">>,
   <<".", "c", "l", "e", "a", "r">>,
   <<" ", ".", "e", "x", "i", "t", "\t">>,
   <<>>,
   <<".", "d", "e", "b", "u", "g">>,
   <<"x", " ", "i", "s">>,
   <<"7", " ", "m", "o", "d", "u", "l", "o", " ", "0">>}

RECURSIVE Sessions(_)
Sessions(n) ==
  IF n = 0 THEN {<<>>}
  ELSE LET shorter == Sessions(n - 1)
       IN shorter \cup {Append(s, line) : s \in shorter, line \in Lines}

ReplInit ==
  /\ prog = <<>>
  /\ pc = 1
  /\ status = "returned"
  /\ result = GoNil
  /\ envs = <<NewEnvironment>>
  /\ out = <<>>
  /\ log = <<>>
  /\ lexer = NoLexer
  /\ toks = <<>>
  /\ parser = NoParser
  /\ program = NoNode
  /\ repl = NoRepl

\* repl.Start on the lines of `in`
Start ==
  /\ repl.state = "none"
  /\ \E in \in Sessions(MaxLines) :
       repl' = [in |-> in, env |-> <<NewEnvironment>>, debugMode |-> FALSE, state |-> "reading",
                done |-> <<>>]
  /\ UNCHANGED <<evalVars, lexVars, parseVars>>

\* scanner.Scan delivers a line, and the loop's turn on it
ReadLine ==
  /\ repl.state = "reading"
  /\ repl.in # <<>>
  /\ \E order \in RangeOrders : repl' = replLine(repl, repl.in[1], order)
  /\ UNCHANGED <<evalVars, lexVars, parseVars>>

\* scanner.Scan delivers nothing more: Start returns
EndOfInput ==
  /\ repl.state = "reading"
  /\ repl.in = <<>>
  /\ repl' = [repl EXCEPT !.state = "returned"]
  /\ UNCHANGED <<evalVars, lexVars, parseVars>>

ReplNext == Start \/ ReadLine \/ EndOfInput

ReplSpec == ReplInit /\ [][ReplNext]_vars

Init ==
  /\ \E p \in Programs : evalProgramInit(p)
  /\ lexer = NoLexer
  /\ toks = <<>>
  /\ parser = NoParser
  /\ program = NoNode
  /\ repl = NoRepl

Next == evalProgramStep \/ evalProgramEnd

Spec == Init /\ [][Next]_vars


(***************************************************************************)
(* Reading the call trees of the evaluated statements off `log`.           *)
(***************************************************************************)
Events == 1..Len(log)

IsEnter(i) == log[i].k = "enter"

IsExit(i) == log[i].k = "exit"

NodeT(i) == log[i].node.t

\* the "exit" event of the evaluation that "enter" event i starts
ExitOf(i) == CHOOSE j \in Events : log[j].k = "exit" /\ log[j].at = i

\* the "enter" events of the evaluations in progress at event i, i's own first
RECURSIVE UpChain(_)
UpChain(i) == IF i = 0 THEN {} ELSE {i} \cup UpChain(log[i].up)

StatementTypes ==
  {"AssignmentStatement", "ExpressionStatement", "LoopStatement", "PointerAssignmentStatement",
   "ReturnStatement", "ShowStatement", "StructDefinitionStatement", "TryCatchStatement"}

CompoundTypes ==
  {"PrefixExpression", "InfixExpression", "CallExpression", "IndexExpression",
   "FieldAccessExpression", "ArrayLiteral", "StructInstantiationExpression"}

IsTry(i) == i # 0 /\ NodeT(i) = "TryCatchStatement"

\* block "enter" event c is the run of the try-block, catch-block, finally-block
\* of the try statement that called it: the try-block is what the statement
\* evaluates first
IsTryBlockRun(c) == IsEnter(c) /\ IsTry(log[c].up) /\ c = log[c].up + 1

IsCatchRun(c) ==
  /\ IsEnter(c) /\ IsTry(log[c].up) /\ c # log[c].up + 1
  /\ log[c].node = log[log[c].up].node.CatchBlock
  /\ log[c].node # log[log[c].up].node.FinallyBlock

IsFinallyRun(c) ==
  /\ IsEnter(c) /\ IsTry(log[c].up) /\ c # log[c].up + 1
  /\ log[c].node = log[log[c].up].node.FinallyBlock
  /\ log[c].node # log[log[c].up].node.CatchBlock

InTryBlock(i) == \E c \in UpChain(log[i].at) : IsTryBlockRun(c)

InFinallyBlock(i) == \E c \in UpChain(log[i].at) : IsFinallyRun(c)

\* C1: every evaluation of a try statement that has a finally-block runs the
\* finally-block exactly once, as the last thing it does (after the try-block
\* and after the catch-block when that runs), whatever the try-block yields.
C1_FinallyRunsOnce ==
  \A T \in Events :
    (IsEnter(T) /\ NodeT(T) = "TryCatchStatement" /\ log[T].node.FinallyBlock # NoNode)
      => LET runs == {c \in Events : log[c].up = T /\ IsFinallyRun(c)}
         IN /\ Cardinality(runs) = 1
            /\ \A c \in runs : ExitOf(c) = ExitOf(T) - 1

RECURSIVE HoldsSentinel(_)
HoldsSentinel(v) ==
  CASE Type(v) \in {RETURN_VALUE_OBJ, ERROR_OBJ} -> TRUE
    [] Type(v) = ARRAY_OBJ -> \E i \in 1..Len(v.els) : HoldsSentinel(v.els[i])
    [] Type(v) = STRUCT_INST_OBJ -> \E n \in DOMAIN v.vals : HoldsSentinel(v.vals[n])
    [] OTHER -> FALSE

\* C2: no Return and no Error sentinel is held as a variable binding of any
\* environment or as an element of an Array (or a field) reachable from one.
C2_NoSentinelStored ==
  \A e \in 1..Len(envs) : \A n \in DOMAIN envs[e].store : ~HoldsSentinel(envs[e].store[n])

\* C3: when a sub-evaluation of a compound expression yields an Error, the
\* compound expression returns at once (nothing ordered after the failing
\* sub-evaluation is evaluated) and its result is that same Error.
C3_ErrorShortCircuit ==
  \A j \in Events :
    (IsExit(j) /\ isError(log[j].val) /\ log[j].up # 0 /\ NodeT(log[j].up) \in CompoundTypes)
      => /\ j + 1 \in Events
         /\ IsExit(j + 1)
         /\ log[j + 1].at = log[j].up
         /\ log[j + 1].val = log[j].val

\* an Error from the first operand of a two-operand expression: the second
\* operand exists and is never entered
C3_Witness ==
  \E j \in Events :
    /\ IsExit(j) /\ isError(log[j].val) /\ log[j].up # 0
    /\ NodeT(log[j].up) \in {"InfixExpression", "IndexExpression"}
    /\ log[j].at = log[j].up + 1
    /\ ExitOf(log[j].up) = j + 1

\* a statement's evaluation returning at event j with an Error, not under the
\* try-block of any try statement in progress
ErrorOutsideTry(j) ==
  /\ IsExit(j) /\ NodeT(j) \in StatementTypes /\ isError(log[j].val)
  /\ ~InTryBlock(j)

\* from event j on every evaluation in progress only returns (nothing is
\* started), evalProgram has returned and its result is the Error of event j
EndsProgram(j) ==
  /\ \A k \in Events : k > j => IsExit(k)
  /\ status = "returned"
  /\ result = log[j].val

\* C4 as stated: once a statement evaluates to an Error outside any try-block,
\* nothing later is executed (no statement of an enclosing block, loop
\* iteration, function body, or of the program) and the program's result is
\* that Error.
C4_ErrorOutsideTryEndsProgram ==
  \A j \in Events : ErrorOutsideTry(j) => EndsProgram(j)

\* C4, amended: once a statement evaluates to an Error outside any try-block
\* and outside any finally-block, nothing later is executed and the program's
\* result is that Error.
C4_ErrorOutsideTryAndFinallyEndsProgram ==
  \A j \in Events : (ErrorOutsideTry(j) /\ ~InFinallyBlock(j)) => EndsProgram(j)

\* a statement fails inside a while-loop inside a function body, statements
\* follow it in its block and top-level statements remain unexecuted
C4_Witness ==
  \E j \in Events :
    /\ ErrorOutsideTry(j) /\ ~InFinallyBlock(j)
    /\ \E c \in UpChain(log[j].at) : NodeT(c) = "LoopStatement"
    /\ \E c \in UpChain(log[j].at) : NodeT(c) = "CallExpression"
    /\ LET b == log[j].up
       IN b # 0 /\ NodeT(b) = "BlockStatement"
          /\ log[b].node.Statements[Len(log[b].node.Statements)] # log[j].node
    /\ pc <= Len(prog)

\* the result of the try-block of the try statement entered at event T: the
\* try-block is the first thing the statement evaluates
TryBlockResult(T) == log[ExitOf(T + 1)].val

\* the result of the block evaluated right after the try-block of T returned
AfterTryBlockResult(T) == log[ExitOf(ExitOf(T + 1) + 1)].val

\* C5: a try statement whose try-block yields an Error results in its
\* catch-block's result when it has a catch-block and in Null when it has
\* none; a try statement whose try-block yields no Error results in the
\* try-block's result (a Return sentinel included); and an Error that any
\* other construct receives from a sub-evaluation is that construct's result.
C5_OnlyTryConsumesError ==
  /\ \A T \in Events :
       (IsEnter(T) /\ NodeT(T) = "TryCatchStatement")
         => LET res == log[ExitOf(T)].val
            IN IF isError(TryBlockResult(T))
                 THEN IF log[T].node.CatchBlock # NoNode
                        THEN /\ log[ExitOf(T + 1) + 1].up = T
                             /\ log[ExitOf(T + 1) + 1].node = log[T].node.CatchBlock
                             /\ res = AfterTryBlockResult(T)
                        ELSE res = NULL
                 ELSE res = TryBlockResult(T)
  /\ \A j \in Events :
       (IsExit(j) /\ isError(log[j].val) /\ log[j].up # 0 /\ NodeT(log[j].up) # "TryCatchStatement")
         => log[ExitOf(log[j].up)].val = log[j].val

\* a try statement without catch-block replaces its try-block's Error by
\* Null, after an earlier try statement replaced its try-block's Error by its
\* catch-block's result or let a Return sentinel through
C5_Witness ==
  \E T \in Events :
    /\ IsEnter(T) /\ NodeT(T) = "TryCatchStatement"
    /\ isError(TryBlockResult(T))
    /\ log[T].node.CatchBlock = NoNode
    /\ log[ExitOf(T)].val = NULL
    /\ \E U \in Events :
         /\ U < T /\ IsEnter(U) /\ NodeT(U) = "TryCatchStatement"
         /\ \/ isError(TryBlockResult(U)) /\ ~isError(log[ExitOf(U)].val)
            \/ Type(TryBlockResult(U)) = RETURN_VALUE_OBJ

(***************************************************************************)
(* Reading writes and reads of bindings off `log`.                         *)
(***************************************************************************)
\* the heap just before event j
HeapBefore(j) == log[j - 1].heap

\* event a is the return of an assignment statement that stored its value
IsAssign(a) == IsExit(a) /\ NodeT(a) = "AssignmentStatement" /\ ~isError(log[a].val)

\* event a is the return of a struct definition (which always stores)
IsStructDef(a) == IsExit(a) /\ NodeT(a) = "StructDefinitionStatement"

\* event w is the return of a pointer assignment that stored its value
IsPointerWrite(w) == IsExit(w) /\ NodeT(w) = "PointerAssignmentStatement" /\ ~isError(log[w].val)

\* the Pointer that pointer assignment w looked up when it started
PointerWritten(w) == Get(log[log[w].at].heap, log[w].env, log[w].node.Name).obj

\* event k stores into the binding of name n in scope e
WritesBinding(k, e, n) ==
  \/ (IsAssign(k) \/ IsStructDef(k)) /\ log[k].env = e /\ log[k].node.Name = n
  \/ IsPointerWrite(k) /\ PointerWritten(k).env = e /\ PointerWritten(k).name = n

\* event r is the return of a read of identifier n that found the binding of
\* scope e
IsRead(r, e, n) ==
  /\ IsExit(r) /\ NodeT(r) = "Identifier" /\ log[r].node.Id = n
  /\ Resolve(log[r].heap, log[r].env, n) = e

\* scope e and the scopes enclosing it
RECURSIVE Outers(_, _)
Outers(heap, e) == IF e = 0 THEN {} ELSE {e} \cup Outers(heap, heap[e].outer)

\* the names bound anywhere in the heap
BoundNames(heap) == UNION {DOMAIN heap[e].store : e \in 1..Len(heap)}

\* C6: after a pointer assignment through a Pointer to x stored v, at whatever
\* scope depth it ran, every later read of x that finds the binding the
\* Pointer names yields v, until that binding is stored into again.
C6_PointerReachThrough ==
  \A w \in Events :
    IsPointerWrite(w)
      => LET P == PointerWritten(w)
         IN \A r \in Events :
              (/\ r > w
               /\ IsRead(r, P.env, P.name)
               /\ ~\E k \in (w + 1)..(r - 1) : WritesBinding(k, P.env, P.name))
                => log[r].val = log[w].val

\* a pointer assignment two or more scopes below the scope of x, followed by
\* a read of x from the scope of x (the next top-level statement)
C6_Witness ==
  \E w \in Events :
    /\ IsPointerWrite(w)
    /\ LET P == PointerWritten(w)
       IN /\ log[w].env # P.env
          /\ log[w].heap[log[w].env].outer # P.env
          /\ P.env \in Outers(log[w].heap, log[w].env)
          /\ \E r \in Events :
               /\ r > w /\ IsRead(r, P.env, P.name) /\ log[r].env = P.env
               /\ log[r].up = 0 \/ NodeT(log[r].up) = "ExpressionStatement"
               /\ log[r].val = log[w].val
               /\ log[r].val = Integer(9)

\* heap `post` is heap `pre` with the binding of name n in scope e set to v
\* and nothing else changed
OneBindingWritten(pre, post, e, n, v) ==
  /\ Len(post) = Len(pre)
  /\ \A d \in 1..Len(pre) :
       /\ post[d].outer = pre[d].outer
       /\ DOMAIN post[d].store = DOMAIN pre[d].store \cup (IF d = e THEN {n} ELSE {})
       /\ \A m \in DOMAIN pre[d].store : (d # e \/ m # n) => post[d].store[m] = pre[d].store[m]
  /\ post[e].store[n] = v

\* C7: a pointer assignment stores into exactly one binding, the one of the
\* Pointer's name in the Pointer's scope, and every other binding of every
\* scope (a shadowing one in the scope of the statement included) is as it
\* was; the Pointer's scope is the nearest scope that bound the name where
\* `pointing to` was evaluated; a dereference yields the value of that binding.
C7_PointerWritesOneBinding ==
  /\ \A w \in Events :
       IsPointerWrite(w)
         => OneBindingWritten(HeapBefore(w), log[w].heap,
                              PointerWritten(w).env, PointerWritten(w).name, log[w].val)
  /\ \A c \in Events :
       (IsExit(c) /\ NodeT(c) = "PointerReferenceExpression" /\ ~isError(log[c].val))
         => LET P == log[c].val
                heap == log[c].heap
            IN /\ Type(P) = POINTER_OBJ
               /\ P.name = log[c].node.Value.Id
               /\ P.env \in Outers(heap, log[c].env)
               /\ P.name \in DOMAIN heap[P.env].store
               /\ \A e \in Outers(heap, log[c].env) :
                    (e # P.env /\ P.env \in Outers(heap, e)) => P.name \notin DOMAIN heap[e].store
  /\ \A d \in Events :
       (IsExit(d) /\ NodeT(d) = "PointerDereferenceExpression" /\ ~isError(log[d].val))
         => LET Q == log[d - 1].val
            IN /\ Type(Q) = POINTER_OBJ
               /\ log[d].val = log[d].heap[Q.env].store[Q.name]

\* a pointer assignment runs in a scope that shadows the Pointer's name: the
\* shadowing binding keeps its value, and a later dereference in that scope
\* yields the value written while a read of the name yields the shadow
C7_Witness ==
  \E w \in Events :
    /\ IsPointerWrite(w)
    /\ LET P == PointerWritten(w)
           e == log[w].env
       IN /\ e # P.env
          /\ P.name \in DOMAIN HeapBefore(w)[e].store
          /\ log[w].heap[e].store[P.name] # log[w].val
          /\ \E d \in Events :
               /\ d > w /\ IsExit(d) /\ NodeT(d) = "PointerDereferenceExpression"
               /\ log[d].env = e /\ log[d].val = log[w].val
          /\ \E r \in Events :
               /\ r > w /\ IsRead(r, e, P.name) /\ log[r].val # log[w].val

\* C8: an assignment statement (a Set on the scope it runs in) changes the
\* binding of its name in that scope and nothing else: Get on every proper
\* ancestor of the scope returns for every name what it returned before, and
\* every other scope is as it was; binding the parameters of a call changes
\* no scope that existed before.
C8_SetLeavesOuterScopes ==
  /\ \A a \in Events :
       (IsAssign(a) \/ IsStructDef(a))
         => LET pre == HeapBefore(a)
                post == log[a].heap
                e == log[a].env
            IN /\ \A anc \in Outers(pre, pre[e].outer) :
                    \A n \in BoundNames(pre) \cup {log[a].node.Name} :
                      Get(post, anc, n) = Get(pre, anc, n)
               /\ \A d \in 1..Len(pre) : d # e => post[d] = pre[d]
               /\ Len(post) = Len(pre)
               /\ Get(post, e, log[a].node.Name).ok
  /\ \A b \in Events :
       (IsEnter(b) /\ NodeT(b) = "BlockStatement" /\ log[b].up # 0 /\ NodeT(log[b].up) = "CallExpression")
         => \A d \in 1..Len(HeapBefore(b)) : log[b].heap[d] = HeapBefore(b)[d]

\* `x is 5 ... { x is 8 } ... x`: an assignment to x ran in a scope below the
\* root scope, which binds x to 5, and the program's last statement, a read
\* of x in the root scope, yields 5
C8_Witness ==
  /\ status = "returned"
  /\ result = Integer(5)
  /\ \E a \in Events :
       /\ IsAssign(a) /\ log[a].node.Name = "x" /\ log[a].val = Integer(8)
       /\ log[a].env # RootEnv
       /\ RootEnv \in Outers(log[a].heap, log[a].env)
       /\ HeapBefore(a)[RootEnv].store["x"] = Integer(5)
       /\ "x" \notin DOMAIN HeapBefore(a)[log[a].env].store
  /\ IsRead(Len(log) - 1, RootEnv, "x")

\* "enter" event c starts an evaluation of the body of the loop statement
\* entered at event i; the loop's other sub-evaluations are of its condition
IsBodyRun(c, i) == IsEnter(c) /\ log[c].up = i /\ NodeT(c) = "BlockStatement"

IsConditionRun(c, i) == IsEnter(c) /\ log[c].up = i /\ NodeT(c) # "BlockStatement"

\* value v interrupts a loop or a block
IsInterrupt(v) == v # GoNil /\ Type(v) \in {RETURN_VALUE_OBJ, ERROR_OBJ}

\* C9: a while-loop evaluates its condition and its body in the scope of the
\* loop statement itself and creates no scope for an iteration; it starts
\* with the condition, runs the body after every truthy condition and the
\* condition after every body that did not interrupt; the first non-truthy
\* condition ends it with Null; a name assigned directly in the body is bound
\* in the loop's scope from then on, so the next condition and the code after
\* the loop see it.
C9_LoopSharesScope ==
  \A i \in Events :
    (IsEnter(i) /\ NodeT(i) = "LoopStatement")
      => LET e == log[i].env
             x == ExitOf(i)
             node == log[i].node
         IN /\ IsConditionRun(i + 1, i)
            /\ \A c \in (i + 1)..(x - 1) :
                 /\ IsConditionRun(c, i)
                      => /\ log[c].env = e
                         /\ log[c].node = node.Condition
                         /\ LET v == log[ExitOf(c)].val
                            IN IF isError(v)
                                 THEN x = ExitOf(c) + 1 /\ log[x].val = v
                                 ELSE IF ~isTruthy(v)
                                   THEN x = ExitOf(c) + 1 /\ log[x].val = NULL
                                   ELSE IsBodyRun(ExitOf(c) + 1, i)
                 /\ IsBodyRun(c, i)
                      => /\ log[c].env = e
                         /\ log[c].node = node.Body
                         /\ log[c].heap = HeapBefore(c)
                         /\ LET v == log[ExitOf(c)].val
                            IN IF IsInterrupt(v)
                                 THEN x = ExitOf(c) + 1 /\ log[x].val = v
                                 ELSE IsConditionRun(ExitOf(c) + 1, i)
                 /\ (IsAssign(c) /\ IsBodyRun(log[c].up, i))
                      => /\ log[c].env = e
                         /\ \A k \in c..x :
                              (~\E m \in (c + 1)..k : WritesBinding(m, e, log[c].node.Name))
                                => /\ log[c].node.Name \in DOMAIN log[k].heap[e].store
                                   /\ log[k].heap[e].store[log[c].node.Name] = log[c].val

\* a loop whose body assigns its counter directly runs the body twice, finds
\* the condition non-truthy the third time and yields Null, the counter being
\* bound to 2 in the loop's scope when the loop returns
C9_Witness ==
  \E i \in Events :
    /\ IsEnter(i) /\ NodeT(i) = "LoopStatement"
    /\ Cardinality({c \in Events : IsBodyRun(c, i)}) = 2
    /\ Cardinality({c \in Events : IsConditionRun(c, i)}) = 3
    /\ log[ExitOf(i)].val = NULL
    /\ log[ExitOf(i) - 1].val = FALSE_
    /\ "w" \in DOMAIN log[i].heap[log[i].env].store
    /\ log[i].heap[log[i].env].store["w"] = Integer(0)
    /\ log[ExitOf(i)].heap[log[i].env].store["w"] = Integer(2)

\* "enter" event b starts the evaluation of a function body by a call
IsFunctionBodyRun(b) ==
  /\ IsEnter(b) /\ NodeT(b) = "BlockStatement"
  /\ log[b].up # 0 /\ NodeT(log[b].up) = "CallExpression"

\* the innermost function body in progress at event r, when there is one
BodyAround(r) ==
  LET bodies == {b \in UpChain(log[r].at) : IsFunctionBodyRun(b)}
  IN CHOOSE b \in bodies : \A o \in bodies : o <= b

\* C10: when a return statement inside a function body, outside any
\* finally-block, returns its Return sentinel, the call that runs the body
\* starts nothing more except the
\* finally-blocks of the try statements the return leaves, and the call
\* expression yields the value of the returned expression, which is not a
\* Return sentinel.
C10_ReturnEndsCall ==
  \A r \in Events :
    (/\ IsExit(r) /\ NodeT(r) = "ReturnStatement" /\ Type(log[r].val) = RETURN_VALUE_OBJ
     /\ \E b \in UpChain(log[r].at) : IsFunctionBodyRun(b)
     /\ ~InFinallyBlock(r))
      => LET c == log[BodyAround(r)].up
             x == ExitOf(c)
         IN /\ \A k \in (r + 1)..(x - 1) : IsEnter(k) => InFinallyBlock(k)
            /\ log[x].val = log[r].val.val
            /\ Type(log[x].val) # RETURN_VALUE_OBJ

\* the "enter" events of the top-level statements, in the order they happened
TopLevelRuns == {i \in Events : IsEnter(i) /\ log[i].up = 0}

\* what evalProgram delivers for statement result v
Delivered(v) == IF Type(v) = RETURN_VALUE_OBJ THEN v.val ELSE v

\* C11: the top-level statements executed so far are the first ones of the
\* program, in source order, each started after the one before it returned;
\* the result is the value of the last one executed, a Return sentinel
\* unwrapped, and no value while none has been executed; a statement that
\* yields a Return sentinel or an Error is the last one executed: evalProgram
\* has returned, and the heap is as that statement left it.
C11_ProgramOrderAndResult ==
  /\ Cardinality(TopLevelRuns) = pc - 1
  /\ pc - 1 <= Len(prog)
  /\ \A i \in TopLevelRuns :
       LET k == Cardinality({j \in TopLevelRuns : j <= i})
       IN /\ log[i].node = prog[k]
          /\ log[i].env = RootEnv
          /\ \A j \in TopLevelRuns : j < i => ExitOf(j) < i
          /\ IF k = pc - 1
               THEN /\ ExitOf(i) = Len(log)
                    /\ result = Delivered(log[ExitOf(i)].val)
                    /\ envs = log[ExitOf(i)].heap
                    /\ IsInterrupt(log[ExitOf(i)].val) => status = "returned"
               ELSE ~IsInterrupt(log[ExitOf(i)].val)
  /\ pc = 1 => (result = GoNil /\ log = <<>>)
  /\ (prog = <<>>) => result = GoNil

\* a top-level `return x` has stopped the program with the value of x while
\* an assignment to x that follows it was never executed
C11_Witness ==
  /\ status = "returned"
  /\ pc <= Len(prog)
  /\ prog[pc].t = "AssignmentStatement" /\ prog[pc].Name = "x"
  /\ prog[pc - 1].t = "ReturnStatement"
  /\ "x" \in DOMAIN envs[RootEnv].store
  /\ result = envs[RootEnv].store["x"]
  /\ result # Integer(prog[pc].Value.Int)
  /\ Type(log[Len(log)].val) = RETURN_VALUE_OBJ

\* the Function that the call whose body starts at "enter" event b applies:
\* the callee is the first thing a call expression evaluates
Callee(b) == log[ExitOf(log[b].up + 1)].val

\* C12: a function literal yields a Function holding the scope it is
\* evaluated in; a call evaluates the body in a new scope whose outer scope
\* is that captured scope, whatever scope the call is made from; so every
\* identifier read in a body finds the nearest binding along new scope,
\* captured scope and its outer scopes, as they are when it is read, and is
\* `identifier not found` when none of them binds the name, bindings of the
\* calling scope notwithstanding.
C12_CallUsesCapturedScope ==
  /\ \A f \in Events :
       (IsExit(f) /\ NodeT(f) = "FunctionLiteral")
         => /\ Type(log[f].val) = FUNCTION_OBJ
            /\ log[f].val.env = log[f].env
            /\ log[f].val.body = log[f].node.Body
  /\ \A b \in Events :
       IsFunctionBodyRun(b)
         => LET fn == Callee(b)
                heap == log[b].heap
                e == log[b].env
            IN /\ Type(fn) = FUNCTION_OBJ
               /\ log[b].node = fn.body
               /\ e = Len(heap) /\ e = Len(HeapBefore(b)) + 1
               /\ heap[e].outer = fn.env
               /\ Outers(heap, e) = {e} \cup Outers(heap, fn.env)
               /\ \A r \in b..ExitOf(b) :
                    (IsExit(r) /\ NodeT(r) = "Identifier" /\ log[r].env = e)
                      => LET n == log[r].node.Id
                             chain == {d \in {e} \cup Outers(log[r].heap, fn.env) :
                                         n \in DOMAIN log[r].heap[d].store}
                         IN IF chain = {}
                              THEN log[r].val = newError("identifier not found: " \o n)
                              ELSE \E d \in chain :
                                     /\ \A o \in chain : o # d => o \in Outers(log[r].heap, d)
                                     /\ log[r].val = log[r].heap[d].store[n]

\* a body reads a free variable that the calling scope binds to one value and
\* the captured scope, which is not among the calling scope's outer scopes,
\* to another, and yields the captured scope's; or it reads a name that only
\* the calling scope binds, and yields `identifier not found`
C12_Witness ==
  \E b \in Events :
    /\ IsFunctionBodyRun(b)
    /\ LET caller == log[log[b].up].env
           fn == Callee(b)
       IN /\ fn.env \notin Outers(log[b].heap, caller)
          /\ \E r \in b..ExitOf(b) :
               /\ IsExit(r) /\ NodeT(r) = "Identifier" /\ log[r].env = log[b].env
               /\ Get(log[r].heap, caller, log[r].node.Id).ok
               /\ Get(log[r].heap, caller, log[r].node.Id).obj # log[r].val
               /\ \/ log[r].val = Integer(1)
                  \/ isError(log[r].val)

\* C13: an identifier bound in no scope of its chain yields the Builtin of
\* that name when the registry has one, and the Error `identifier not found`
\* only when it has none; an identifier bound in the chain yields its binding
\* even when it names a builtin; a call whose callee is such a builtin name
\* dispatches to the native function, so it does not yield `identifier not
\* found` or `not a function`.
C13_BuiltinLookup ==
  /\ \A r \in Events :
       (IsExit(r) /\ NodeT(r) = "Identifier")
         => LET n == log[r].node.Id
                g == Get(log[r].heap, log[r].env, n)
            IN IF g.ok
                 THEN log[r].val = g.obj
                 ELSE IF GetBuiltin(n).ok
                   THEN log[r].val = GetBuiltin(n).obj
                   ELSE log[r].val = newError("identifier not found: " \o n)
  /\ \A c \in Events :
       (/\ IsExit(c) /\ NodeT(c) = "CallExpression"
        /\ log[c].node.Function.t = "Identifier"
        /\ ~Get(log[log[c].at].heap, log[c].env, log[c].node.Function.Id).ok
        /\ GetBuiltin(log[c].node.Function.Id).ok)
         => /\ log[c].val # newError("identifier not found: " \o log[c].node.Function.Id)
            /\ log[c].val # newError("not a function: " \o BUILTIN_OBJ)

\* the evaluations of the body of the for-in loop entered at event i
RangeBodyRuns(i) == {c \in Events : IsEnter(c) /\ log[c].up = i /\ log[c].node = log[i].node.Body}

\* C14: a for-in loop first evaluates its iterable; over an Array of k
\* elements it runs the body in the loop's scope once per element in element
\* order, the loop variable bound to that element in that scope when the run
\* starts, k times unless a run yields a Return sentinel or an Error, which
\* is then the last run and the loop's result; over a non-Array it yields an
\* Error.
C14_ForInRunsBodyPerElement ==
  \A i \in Events :
    (IsEnter(i) /\ NodeT(i) = "RangeLoopStatement")
      => LET node == log[i].node
             e == log[i].env
             res == log[ExitOf(i)].val
         IN /\ IsEnter(i + 1) /\ log[i + 1].up = i /\ log[i + 1].node = node.Iterable
            /\ LET v == log[ExitOf(i + 1)].val
                   runs == RangeBodyRuns(i)
               IN IF isError(v)
                    THEN res = v /\ runs = {}
                    ELSE IF Type(v) # ARRAY_OBJ
                      THEN isError(res) /\ runs = {}
                      ELSE /\ Cardinality(runs) <= Len(v.els)
                           /\ \A c \in runs :
                                LET k == Cardinality({d \in runs : d <= c})
                                IN /\ log[c].env = e
                                   /\ node.Iterator \in DOMAIN log[c].heap[e].store
                                   /\ log[c].heap[e].store[node.Iterator] = v.els[k]
                                   /\ IF IsInterrupt(log[ExitOf(c)].val)
                                        THEN /\ k = Cardinality(runs)
                                             /\ res = log[ExitOf(c)].val
                                        ELSE k = Len(v.els) \/ k < Cardinality(runs)
                           /\ (Cardinality(runs) = 0) => Len(v.els) = 0

\* the sub-expressions of a call, an array literal or a map literal in
\* source order
RECURSIVE PairsInOrder(_, _)
PairsInOrder(pairs, i) ==
  IF i > Len(pairs) THEN <<>>
  ELSE <<pairs[i].Key, pairs[i].Value>> \o PairsInOrder(pairs, i + 1)

SourceOrder(node) ==
  CASE node.t = "CallExpression" -> <<node.Function>> \o node.Arguments
    [] node.t = "ArrayLiteral" -> node.Elements
    [] node.t = "MapLiteral" -> PairsInOrder(node.Pairs, 1)

\* the sub-evaluations that the evaluation entered at event i started itself
Children(i) == {c \in Events : IsEnter(c) /\ log[c].up = i}

\* C15: a call, an array literal and a map literal evaluate their
\* sub-expressions (callee then arguments, elements, key then value of pair
\* after pair) in source order, stopping at the first that fails, whose
\* Error is the result; a map literal that evaluated all its pairs holds for
\* every key the value of the last pair in source order with that key.
C15_LeftToRight ==
  \A i \in Events :
    (IsEnter(i) /\ NodeT(i) \in {"CallExpression", "ArrayLiteral", "MapLiteral"})
      => LET src == SourceOrder(log[i].node)
             subs == IF NodeT(i) = "CallExpression"
                       THEN {c \in Children(i) : ~IsFunctionBodyRun(c)}
                       ELSE Children(i)
         IN /\ Cardinality(subs) <= Len(src)
            /\ \A c \in subs : log[c].node = src[Cardinality({d \in subs : d <= c})]
            /\ (NodeT(i) = "MapLiteral" /\ Type(log[ExitOf(i)].val) = MAP_OBJ)
                 => LET m == log[ExitOf(i)].val
                        pairs == log[i].node.Pairs
                        keyOf(k) == log[ExitOf(CHOOSE c \in subs :
                                      Cardinality({d \in subs : d <= c}) = 2 * k - 1)].val
                        valOf(k) == log[ExitOf(CHOOSE c \in subs :
                                      Cardinality({d \in subs : d <= c}) = 2 * k)].val
                    IN \A k \in 1..Len(pairs) :
                         (\A l \in (k + 1)..Len(pairs) : keyOf(l) # keyOf(k))
                           => evalMapIndex(m, keyOf(k)) = valOf(k)

\* the declared field names of a struct definition
Declared(def) == {def.fields[i] : i \in 1..Len(def.fields)}

\* C16: every struct instance an instantiation yields has only fields its
\* definition declares, each declared field that the instantiation gave no
\* value being present with Null; a field access on an instance yields the
\* field's value when the definition declares the field and the Error
\* `struct <N> has no field <F>` when it does not.
C16_InstanceFieldsDeclared ==
  /\ \A x \in Events :
       (IsExit(x) /\ NodeT(x) = "StructInstantiationExpression" /\ Type(log[x].val) = STRUCT_INST_OBJ)
         => LET inst == log[x].val
                given == {log[x].node.Fields[i].Name : i \in 1..Len(log[x].node.Fields)}
            IN /\ DOMAIN inst.vals \subseteq Declared(inst.def)
               /\ \A f \in Declared(inst.def) \ given :
                    f \in DOMAIN inst.vals /\ inst.vals[f] = NULL
  /\ \A x \in Events :
       (/\ IsExit(x) /\ NodeT(x) = "FieldAccessExpression"
        /\ Type(log[x - 1].val) = STRUCT_INST_OBJ)
         => LET inst == log[x - 1].val
                f == log[x].node.Field
            IN IF f \in Declared(inst.def)
                 THEN log[x].val = inst.vals[f]
                 ELSE log[x].val = newError("struct " \o inst.def.name \o " has no field " \o f)


\* the values the language calls falsy: Null and the Boolean false
Falsy(v) == Type(v) = NULL_OBJ \/ (Type(v) = BOOLEAN_OBJ /\ ~v.b)

\* the block run that the construct entered at event i started as soon as
\* its sub-evaluation c returned
RunAfter(i, c) == {d \in Children(i) : d = ExitOf(c) + 1 /\ NodeT(d) = "BlockStatement"}

\* C17: whatever produced the value v of the condition of an if-expression,
\* of the condition of a while-loop, or of the operand of prefix `!` or
\* `not`, the if-expression runs its consequence unless v is Null or
\* Boolean false (then its alternative, if any), the loop runs its body
\* unless v is Null or Boolean false, and the prefix operator yields the
\* Boolean true when v is Null or Boolean false and false otherwise;
\* Integer 0, "" and [] count as truthy.
C17_Truthiness ==
  \A c \in Events :
    (IsEnter(c) /\ log[c].up # 0 /\ ~isError(log[ExitOf(c)].val))
      => LET i == log[c].up
             node == log[i].node
             v == log[ExitOf(c)].val
         IN /\ (NodeT(i) = "IfExpression" /\ c = i + 1)
                 => IF Falsy(v)
                      THEN IF node.Alternative # NoNode
                             THEN \E d \in RunAfter(i, c) : log[d].node = node.Alternative
                             ELSE RunAfter(i, c) = {}
                      ELSE \E d \in RunAfter(i, c) : log[d].node = node.Consequence
            /\ (NodeT(i) = "LoopStatement" /\ IsConditionRun(c, i))
                 => (RunAfter(i, c) = {} <=> Falsy(v))
            /\ (NodeT(i) = "PrefixExpression" /\ node.Operator \in {"!", "not"})
                 => log[ExitOf(i)].val = nativeBool(Falsy(v))


\* C18: an integer infix operator applied to two Integers returns an
\* Integer, a Boolean or an Error, `divides` with a zero right operand
\* returning the Error `division by zero`; no such operation ends the
\* interpreter with a run-time panic.
C18_IntegerInfixReturns ==
  /\ status # "panicked"
  /\ \A x \in Events :
       (/\ IsExit(x) /\ NodeT(x) = "InfixExpression"
        /\ Cardinality(Children(log[x].at)) = 2
        /\ \A c \in Children(log[x].at) : Type(log[ExitOf(c)].val) = INTEGER_OBJ)
         => /\ Type(log[x].val) \in {INTEGER_OBJ, BOOLEAN_OBJ, ERROR_OBJ}
            /\ (log[x].node.Operator = "divides" /\ log[x - 1].val = Integer(0))
                 => log[x].val = newError("division by zero")


\* name n is bound in no scope of the chain that starts at scope e
Unbound(heap, e, n) == \A o \in Outers(heap, e) : n \notin DOMAIN heap[o].store

\* C20: `pointing to X` evaluated where X is bound in no scope of the
\* current chain yields the Error `identifier not found: X`, no Pointer, and
\* changes nothing; a top-level assignment `ptr is pointing to X` with X
\* unbound is the last statement executed: the program has stopped with
\* that Error as its result and `ptr` is not bound.
C20_DanglingReferenceFails ==
  /\ \A x \in Events :
       (/\ IsExit(x) /\ NodeT(x) = "PointerReferenceExpression"
        /\ log[x].node.Value.t = "Identifier"
        /\ Unbound(HeapBefore(x), log[x].env, log[x].node.Value.Id))
         => /\ log[x].val = newError("identifier not found: " \o log[x].node.Value.Id)
            /\ log[x].heap = HeapBefore(x)
  /\ \A i \in TopLevelRuns :
       (/\ NodeT(i) = "AssignmentStatement"
        /\ log[i].node.Value.t = "PointerReferenceExpression"
        /\ log[i].node.Value.Value.t = "Identifier"
        /\ Unbound(log[i].heap, RootEnv, log[i].node.Value.Value.Id))
         => /\ ExitOf(i) = Len(log)
            /\ status = "returned"
            /\ result = newError("identifier not found: " \o log[i].node.Value.Value.Id)
            /\ pc <= Len(prog)
            /\ log[i].node.Name \notin DOMAIN envs[RootEnv].store

\* `ptr is pointing to missing` has stopped the program with the Error, the
\* dereference of ptr that follows it not executed and ptr not bound
C20_Witness ==
  /\ status = "returned"
  /\ pc = 2
  /\ prog = <<AssignmentStatement("ptr", PointerReferenceExpression(Id("missing"))),
              ES(PointerDereferenceExpression(Id("ptr")))>>
  /\ result = newError("identifier not found: missing")
  /\ "ptr" \notin DOMAIN envs[RootEnv].store


\* the keys of the pairs Map m holds
KeysHeld(m) == {m.pairs[h].Key : h \in DOMAIN m.pairs}

\* C19: an index expression on an Array and an Integer yields Null when the
\* Integer is below 0 or above the last position (so always for the empty
\* array) and otherwise the element at that position; an index expression
\* on a Map and a hashable key the Map holds no pair for yields Null.
C19_AbsentIndexYieldsNull ==
  \A x \in Events :
    (/\ IsExit(x) /\ NodeT(x) = "IndexExpression"
     /\ Cardinality(Children(log[x].at)) = 2
     /\ \A c \in Children(log[x].at) : ~isError(log[ExitOf(c)].val))
      => LET left == log[ExitOf(log[x].at + 1)].val
             index == log[x - 1].val
         IN /\ (Type(left) = ARRAY_OBJ /\ Type(index) = INTEGER_OBJ)
                 => IF index.n < 0 \/ index.n > Len(left.els) - 1
                      THEN log[x].val = NULL
                      ELSE log[x].val = left.els[index.n + 1]
            /\ (Type(left) = MAP_OBJ /\ Hashable(index) /\ index \notin KeysHeld(left))
                 => log[x].val = NULL


\* the Pointers bound to a name in some scope of heap
PointersIn(heap) ==
  UNION {{heap[e].store[n] : n \in {m \in DOMAIN heap[e].store : Type(heap[e].store[m]) = POINTER_OBJ}} :
           e \in 1..Len(heap)}

\* Pointer p names a scope of heap that binds p's name in its own table
Live(heap, p) == p.env \in 1..Len(heap) /\ p.name \in DOMAIN heap[p.env].store

\* C21: every Pointer an evaluation has yielded, and every Pointer bound in
\* the heap, names a scope that holds a binding of the Pointer's name in its
\* own table, at the point it was yielded and at every later point, whether
\* or not the call or block that made the scope has returned; no evaluation
\* yields `dangling pointer: <name>`, and a dereference of a Pointer yields
\* the value of that one binding.
C21_PointerTargetLive ==
  /\ \A x \in Events :
       /\ Type(log[x].val) = POINTER_OBJ
            => \A y \in Events : y >= x => Live(log[y].heap, log[x].val)
       /\ \A p \in PointersIn(log[x].heap) : Live(log[x].heap, p)
       /\ \A n \in BoundNames(log[x].heap) : log[x].val # newError("dangling pointer: " \o n)
       /\ (/\ IsExit(x) /\ NodeT(x) = "PointerDereferenceExpression"
           /\ Type(log[x - 1].val) = POINTER_OBJ /\ log[x - 1].at = log[x].at + 1)
            => log[x].val = log[x].heap[log[x - 1].val.env].store[log[x - 1].val.name]
  /\ \A p \in PointersIn(envs) : Live(envs, p)

\* a Pointer to the local `a` of a call that has returned was written
\* through at the top level and then dereferenced, yielding the value written
C21_Witness ==
  /\ status = "running"
  /\ pc = 5
  /\ prog[1].t = "AssignmentStatement" /\ prog[1].Name = "mk"
  /\ prog[3].t = "PointerAssignmentStatement"
  /\ "p" \in DOMAIN envs[RootEnv].store
  /\ Type(envs[RootEnv].store["p"]) = POINTER_OBJ
  /\ envs[RootEnv].store["p"].name = "a"
  /\ envs[RootEnv].store["p"].env # RootEnv
  /\ result = Integer(5)


\* the values of the arguments of the call entered at event i, in order:
\* the sub-evaluations of the call after the callee's that are not the body
ArgumentRuns(i) == {c \in Children(i) : c # i + 1 /\ ~IsFunctionBodyRun(c)}

ArgumentValue(i, k) ==
  log[ExitOf(CHOOSE c \in ArgumentRuns(i) : Cardinality({d \in ArgumentRuns(i) : d <= c}) = k)].val

\* C26: a call of a Function whose callee and arguments evaluated without
\* Error runs the body whatever the number of arguments; the call scope
\* binds exactly the parameters whose position is at most the number of
\* arguments, each to the argument at its position, and binds nothing for a
\* surplus argument; the call yields what the body yields (a Return sentinel
\* unwrapped), so a body reading an unbound parameter yields what the
\* captured chain binds or `identifier not found`.
C26_ArityMismatchIgnored ==
  \A x \in Events :
    (/\ IsExit(x) /\ NodeT(x) = "CallExpression"
     /\ Type(log[ExitOf(log[x].at + 1)].val) = FUNCTION_OBJ
     /\ Cardinality(ArgumentRuns(log[x].at)) = Len(log[x].node.Arguments)
     /\ \A c \in ArgumentRuns(log[x].at) : ~isError(log[ExitOf(c)].val))
      => LET i == log[x].at
             fn == log[ExitOf(i + 1)].val
             nargs == Len(log[x].node.Arguments)
             bound == {k \in 1..Len(fn.params) : k <= nargs}
         IN \E b \in Children(i) :
              /\ IsFunctionBodyRun(b)
              /\ DOMAIN log[b].heap[log[b].env].store = {fn.params[k] : k \in bound}
              /\ \A k \in bound :
                   (\A j \in bound : fn.params[j] = fn.params[k] => j <= k)
                     => log[b].heap[log[b].env].store[fn.params[k]] = ArgumentValue(i, k)
              /\ log[x].val = Delivered(log[ExitOf(b)].val)
              /\ \A r \in b..ExitOf(b) :
                   (/\ IsExit(r) /\ NodeT(r) = "Identifier" /\ log[r].env = log[b].env
                    /\ log[r].node.Id \notin DOMAIN log[r].heap[log[b].env].store)
                     => LET g == Get(log[r].heap, fn.env, log[r].node.Id)
                        IN log[r].val = (IF g.ok THEN g.obj
                                         ELSE newError("identifier not found: " \o log[r].node.Id))

\* a function of three parameters called with one argument has read its
\* second parameter and got the value the root binds to that name, and
\* called with four arguments has read its third
C26_Witness ==
  /\ pc = 4
  /\ prog[2].t = "AssignmentStatement" /\ prog[2].Name = "f"
  /\ prog[3].t = "ExpressionStatement" /\ prog[3].Expression.t = "CallExpression"
  /\ \/ /\ Len(prog[3].Expression.Arguments) = 1
        /\ prog[2].Value.Body.Statements[1].ReturnValue = Id("b")
        /\ result = Integer(9)
     \/ /\ Len(prog[3].Expression.Arguments) = 4
        /\ prog[2].Value.Body.Statements[1].ReturnValue = Id("c")
        /\ result = Integer(3)


\* the pointer assignment that returned at event x found its name unbound
\* or bound to a non-Pointer: it yields the Error for that and has
\* evaluated nothing
FailsOnName(x) ==
  LET i == log[x].at
      g == Get(log[i].heap, log[x].env, log[x].node.Name)
  IN /\ ~g.ok => log[x].val = newError("identifier not found: " \o log[x].node.Name)
     /\ (g.ok /\ Type(g.obj) # POINTER_OBJ)
          => log[x].val = newError("'" \o log[x].node.Name \o "' is not a pointer")
     /\ (~g.ok \/ Type(g.obj) # POINTER_OBJ) => (Children(i) = {} /\ log[x].heap = log[i].heap)

\* C27 as stated: a pointer assignment fails on an unbound or non-Pointer
\* name without evaluating its value, and whenever it yields an Error the
\* binding its Pointer targets has the value it had when the statement
\* started.
C27_FailedWriteKeepsBinding ==
  \A x \in Events :
    (IsExit(x) /\ NodeT(x) = "PointerAssignmentStatement")
      => /\ FailsOnName(x)
         /\ (isError(log[x].val) /\ PointerWritten(x) # GoNil /\ Type(PointerWritten(x)) = POINTER_OBJ)
              => LET P == PointerWritten(x)
                 IN log[x].heap[P.env].store[P.name] = log[log[x].at].heap[P.env].store[P.name]

\* C27: a pointer assignment fails on an unbound or non-Pointer name
\* without evaluating its value, and whenever it yields an Error it has
\* stored nothing itself: the heap is as the evaluation of its value left
\* it, so the binding its Pointer targets has its previous value unless
\* that evaluation wrote to it.
C27_FailedWriteStoresNothing ==
  \A x \in Events :
    (IsExit(x) /\ NodeT(x) = "PointerAssignmentStatement")
      => /\ FailsOnName(x)
         /\ isError(log[x].val) => log[x].heap = log[x - 1].heap

\* the value of a pointer assignment through p, a call that wrote 6 through
\* p and then failed, made the assignment yield an Error, and x holds 6
C27_Witness ==
  /\ status = "returned"
  /\ pc = 4
  /\ prog[3].t = "PointerAssignmentStatement" /\ prog[3].Name = "p"
  /\ prog[3].Value.t = "CallExpression"
  /\ isError(result)
  /\ "x" \in DOMAIN envs[RootEnv].store /\ envs[RootEnv].store["x"] = Integer(6)


\* C28: an infix expression with operator `and` or `or` whose left operand
\* yielded a value (not an Error) evaluates its right operand, after the
\* left one, whatever the left value is; an Error of the right operand is
\* the result, and two Booleans give their conjunction or disjunction.
C28_AndOrEvaluateBoth ==
  \A x \in Events :
    (/\ IsExit(x) /\ NodeT(x) = "InfixExpression" /\ log[x].node.Operator \in {"and", "or"}
     /\ ~isError(log[ExitOf(log[x].at + 1)].val))
      => LET i == log[x].at
             left == log[ExitOf(i + 1)].val
             r == ExitOf(i + 1) + 1
         IN /\ log[i + 1].node = log[x].node.Left
            /\ Children(i) = {i + 1, r}
            /\ IsEnter(r) /\ log[r].node = log[x].node.Right
            /\ ExitOf(r) = x - 1
            /\ isError(log[x - 1].val) => log[x].val = log[x - 1].val
            /\ (Type(left) = BOOLEAN_OBJ /\ Type(log[x - 1].val) = BOOLEAN_OBJ)
                 => log[x].val = nativeBool(IF log[x].node.Operator = "and"
                                              THEN left.b /\ log[x - 1].val.b
                                              ELSE left.b \/ log[x - 1].val.b)

\* `false and e` has yielded false after e, a call, wrote 5 through the
\* Pointer to x
C28_Witness ==
  /\ pc = 4
  /\ prog[3].t = "ExpressionStatement" /\ prog[3].Expression.t = "InfixExpression"
  /\ prog[3].Expression.Operator = "and" /\ prog[3].Expression.Left = False
  /\ prog[3].Expression.Right.t = "CallExpression"
  /\ result = FALSE_
  /\ envs[RootEnv].store["x"] = Integer(5)


\* event w is the return of a pointer write made inside the try-block of the
\* try statement entered at event T, to a binding of a scope that existed
\* when the try statement started
IsOuterWriteInTry(w, T) ==
  /\ IsPointerWrite(w)
  /\ T + 1 \in UpChain(log[w].at)
  /\ PointerWritten(w).env <= Len(log[T].heap)

\* C29: when the try-block of a try statement yields an Error, every pointer
\* write it completed to a binding of a scope older than the try statement
\* stays in effect, through the catch-block (when there is one) and after
\* the statement, until that binding is stored into again; and the scope of
\* the try-block, which holds what it assigned plainly, is not among the
\* scopes of the catch-block nor of the statement.
C29_TryNotTransactional ==
  \A T \in Events :
    (IsEnter(T) /\ IsTry(T) /\ isError(TryBlockResult(T)))
      => /\ \A w \in Events :
              IsOuterWriteInTry(w, T)
                => LET P == PointerWritten(w)
                   IN \A r \in Events :
                        (r >= w /\ ~\E k \in (w + 1)..r : WritesBinding(k, P.env, P.name))
                          => log[r].heap[P.env].store[P.name] = log[w].val
         /\ \A c \in Children(T) :
              c # T + 1 => log[T + 1].env \notin Outers(log[c].heap, log[c].env)
         /\ log[T + 1].env \notin Outers(log[ExitOf(T)].heap, log[T].env)
         /\ log[ExitOf(T)].heap[log[T].env].store = log[T].heap[log[T].env].store
              \/ \E w \in T..ExitOf(T) : IsPointerWrite(w) /\ PointerWritten(w).env = log[T].env

\* a try-block wrote 5 through the Pointer to x, assigned y and x in its own
\* scope and failed; after the statement x is 5 at the root and y is unbound
C29_Witness ==
  /\ pc = 5
  /\ prog[3].t = "TryCatchStatement"
  /\ prog[4] = ES(Id("y"))
  /\ result = newError("identifier not found: y")
  /\ envs[RootEnv].store["x"] = Integer(5)


\* C30: every call runs its body in a scope that did not exist before the
\* call and that no other call uses, holding at its start nothing but the
\* call's own parameters; a function literal evaluated in a call captures
\* that call's scope, so closures made by different calls capture different
\* scopes; a pointer write changes no scope but the one its Pointer names;
\* and two calls of one closure run in scopes enclosed by the same captured
\* scope, the second finding it as the first left it unless it was stored
\* into in between.
C30_FreshScopePerCall ==
  /\ \A b \in Events :
       IsFunctionBodyRun(b)
         => LET fn == Callee(b)
                e == log[b].env
            IN /\ e = Len(HeapBefore(b)) + 1 /\ e = Len(log[b].heap)
               /\ DOMAIN log[b].heap[e].store \subseteq {fn.params[k] : k \in 1..Len(fn.params)}
               /\ log[b].heap[e].outer = fn.env
               /\ \A c \in Events : (IsFunctionBodyRun(c) /\ c # b) => log[c].env # e
               /\ \A f \in b..ExitOf(b) :
                    (IsExit(f) /\ NodeT(f) = "FunctionLiteral" /\ BodyAround(f) = b /\ log[f].env = e)
                      => log[f].val.env = e
               /\ \A c \in Events :
                    (IsFunctionBodyRun(c) /\ c > b /\ Callee(c) = fn)
                      => \/ log[c].heap[fn.env].store = log[ExitOf(b)].heap[fn.env].store
                         \/ \E k \in ExitOf(b)..c : \E n \in BoundNames(log[k].heap) :
                              WritesBinding(k, fn.env, n)
  /\ \A w \in Events :
       IsPointerWrite(w)
         => \A e \in 1..Len(log[w - 1].heap) :
              e # PointerWritten(w).env => log[w].heap[e] = log[w - 1].heap[e]

\* two closures made by two calls of mk: the first was called twice with 1
\* and its captured n holds 2, the second once with 10 and its captured n
\* holds 10
C30_Witness ==
  /\ pc = 7
  /\ prog[1] = AssignmentStatement("mk", Counter)
  /\ result = Integer(10)
  /\ LET c1 == envs[RootEnv].store["c1"]
         c2 == envs[RootEnv].store["c2"]
     IN /\ c1.env # c2.env
        /\ envs[c1.env].store["n"] = Integer(2)
        /\ envs[c2.env].store["n"] = Integer(10)


(***************************************************************************)
(* Reading the NextToken calls off `toks`.                                 *)
(***************************************************************************)
Calls == 1..Len(toks)

\* the lexer that has read the input up to position n and nothing else
RECURSIVE Scanned(_, _)
Scanned(l, n) == IF l.position >= n THEN l ELSE Scanned(readChar(l), n)

\* the position behind the run of characters satisfying In(_) that starts
\* at position m of the input
RunEnd(input, m, In(_)) ==
  CHOOSE k \in m..Len(input) :
    /\ \A i \in m..(k - 1) : In(input[i + 1])
    /\ k < Len(input) => ~In(input[k + 1])

IsSpaceOrTab(ch) == ch \in {" ", "\t"}

IsLetterOrDigit(ch) == isLetter(ch) \/ IsDigit(ch)

\* where the token of call i starts when no comment precedes it
TokenStart(i) == RunEnd(lexer.input, toks[i].from.position, IsSpace)

\* call i reads the identifier `pointing` at the start of its token
ReadsPointing(i) ==
  LET s == TokenStart(i)
      e == RunEnd(lexer.input, s, IsLetterOrDigit)
  IN /\ s < Len(lexer.input) /\ isLetter(lexer.input[s + 1])
     /\ Slice(SubSeq(lexer.input, s + 1, e)) = "pointing"

\* C24: a call that reads the identifier `pointing` looks at the next
\* identifier behind spaces and tabs.  When that is exactly `to` or `from`
\* the call returns one POINTING_TO or POINTING_FROM token, placed at the
\* `p`, and leaves the lexer behind that word; in every other case it
\* returns the IDENT `pointing` and leaves position, readPosition, ch, line
\* and column as a lexer has them that read up to the end of `pointing`
\* and no further.
C24_PointingLookahead ==
  \A i \in Calls :
    ReadsPointing(i)
      => LET input == lexer.input
             s == TokenStart(i)
             atP == Scanned(New(input), s)
             m == RunEnd(input, s + 8, IsSpaceOrTab)
             e == IF m < Len(input) /\ isLetter(input[m + 1])
                    THEN RunEnd(input, m, IsLetterOrDigit) ELSE m
             next == Slice(SubSeq(input, m + 1, e))
         IN IF next \in {"to", "from"}
              THEN /\ toks[i].tok = Token(IF next = "to" THEN "POINTING_TO" ELSE "POINTING_FROM",
                                          "pointing " \o next, atP.line, atP.column)
                   /\ toks[i].to = Scanned(New(input), e)
              ELSE /\ toks[i].tok = Token("IDENT", "pointing", atP.line, atP.column)
                   /\ toks[i].to = Scanned(New(input), s + 8)

\* the same with the next word taken as the letters behind the spaces and
\* tabs, whatever follows them
C24_LettersOnly ==
  \A i \in Calls :
    ReadsPointing(i)
      => LET input == lexer.input
             s == TokenStart(i)
             atP == Scanned(New(input), s)
             m == RunEnd(input, s + 8, IsSpaceOrTab)
             e == RunEnd(input, m, isLetter)
             next == Slice(SubSeq(input, m + 1, e))
         IN IF next \in {"to", "from"}
              THEN /\ toks[i].tok = Token(IF next = "to" THEN "POINTING_TO" ELSE "POINTING_FROM",
                                          "pointing " \o next, atP.line, atP.column)
                   /\ toks[i].to = Scanned(New(input), e)
              ELSE /\ toks[i].tok = Token("IDENT", "pointing", atP.line, atP.column)
                   /\ toks[i].to = Scanned(New(input), s + 8)

\* `pointing to2` has been scanned to its end
C24_Witness ==
  /\ lexer.input = <<"p", "o", "i", "n", "t", "i", "n", "g", " ", "t", "o", "2">>
  /\ Len(toks) = 3
  /\ toks[1].tok.Type = "POINTING_TO"
  /\ toks[2].tok = Token("INT", "2", 1, 12)
  /\ toks[3].tok.Type = "EOF"


\* call i finds, behind the white space, a character that starts no token
\* and no comment
FindsUnrecognised(i) ==
  LET input == lexer.input
      s == TokenStart(i)
  IN /\ s < Len(input)
     /\ \/ input[s + 1] \in {"@", "*", "\\"}
        \/ /\ input[s + 1] = "/"
           /\ s + 1 < Len(input) => input[s + 2] \notin {"/", "*"}

\* every call that does not return EOF leaves the lexer further in the input
C25_NonEOFCallConsumes ==
  \A i \in Calls : toks[i].tok.Type # "EOF" => toks[i].to.position > toks[i].from.position

\* a character that starts no token is returned as the ILLEGAL token of that
\* character, and the lexer is left behind it
C25_UnrecognisedIsIllegal ==
  \A i \in Calls :
    FindsUnrecognised(i)
      => LET s == TokenStart(i)
             at == Scanned(New(lexer.input), s)
         IN /\ toks[i].tok = Token("ILLEGAL", lexer.input[s + 1], at.line, at.column)
            /\ toks[i].to = Scanned(New(lexer.input), s + 1)

\* every call after one that returned EOF returns EOF
C25_EOFForever ==
  \A i \in Calls : \A j \in Calls :
    (i < j /\ toks[i].tok.Type = "EOF") => toks[j].tok.Type = "EOF"

\* some call returns EOF
C25_ReachesEOF == <>(\E i \in Calls : toks[i].tok.Type = "EOF")

\* C25: on every input, whatever its characters, the calls of NextToken
\* come to one that returns EOF, every call after it returns EOF too, every
\* call that returns another token has consumed at least one character, and
\* a character that starts no token comes back as ILLEGAL.
C25_LexerTerminates ==
  /\ C25_ReachesEOF
  /\ [](C25_EOFForever /\ C25_NonEOFCallConsumes /\ C25_UnrecognisedIsIllegal)

\* the input of a NUL character and an `a`: the first call has returned
\* EOF at the NUL and the second the identifier behind it
C25_Witness ==
  /\ lexer.input = <<Nul, "a">>
  /\ Len(toks) = 2
  /\ toks[1].tok = Token("EOF", "", 1, 1)
  /\ toks[2].tok = Token("IDENT", "a", 1, 2)


(***************************************************************************)
(* Reading the tree of a parsed program.                                   *)
(***************************************************************************)
\* the expression of a statement
ExpressionOf(s) == IF s.t = "AssignmentStatement" THEN s.Value ELSE s.Expression

\* the nodes of an expression
RECURSIVE SubExpressions(_)
SubExpressions(e) ==
  CASE e.t = "InfixExpression" -> {e} \cup SubExpressions(e.Left) \cup SubExpressions(e.Right)
    [] e.t = "PrefixExpression" -> {e} \cup SubExpressions(e.Right)
    [] e.t = "CallExpression" ->
         {e} \cup SubExpressions(e.Function)
             \cup UNION {SubExpressions(e.Arguments[k]) : k \in 1..Len(e.Arguments)}
    [] e.t = "IndexExpression" -> {e} \cup SubExpressions(e.Left) \cup SubExpressions(e.Index)
    [] OTHER -> {e}

\* the literals of the tokens an expression was made of, in their order
RECURSIVE Yield(_)
RECURSIVE YieldList(_)
YieldList(es) ==
  IF es = <<>> THEN <<>>
  ELSE IF Len(es) = 1 THEN Yield(es[1])
  ELSE Yield(es[1]) \o <<",">> \o YieldList(Tail(es))

Yield(e) ==
  CASE e.t = "InfixExpression" -> Yield(e.Left) \o <<e.Operator>> \o Yield(e.Right)
    [] e.t = "PrefixExpression" -> <<e.Operator>> \o Yield(e.Right)
    [] e.t = "CallExpression" -> Yield(e.Function) \o <<"(">> \o YieldList(e.Arguments) \o <<")">>
    [] e.t = "IndexExpression" -> Yield(e.Left) \o <<"[">> \o Yield(e.Index) \o <<"]">>
    [] e.t = "Identifier" -> <<e.Id>>
    [] e.t = "IntegerLiteral" -> <<ToString(e.Int)>>

YieldOfStatement(s) ==
  IF s.t = "AssignmentStatement" THEN <<s.Name, "is">> \o Yield(s.Value) ELSE Yield(s.Expression)

\* the literals of the tokens of an input up to its first EOF
RECURSIVE Literals(_)
Literals(l) ==
  LET r == NextToken(l)
  IN IF r.tok.Type = "EOF" THEN <<>> ELSE <<r.tok.Literal>> \o Literals(r.l)

\* the program is one statement, made of all the input's tokens in their
\* order, without an error
ParsedWhole ==
  /\ parser.errors = <<>>
  /\ Len(program.Statements) = 1
  /\ YieldOfStatement(program.Statements[1]) = Literals(New(parser.l.input))

\* the tree nests its operators by Level(_): an infix operator's left
\* operand is no infix expression of a lower level, its right operand none
\* of a lower or the same level (operators of one level group from the
\* left); a prefix operator's operand is no infix expression; what is called
\* or indexed is no infix and no prefix expression
NestedBy(Level(_)) ==
  \A e \in SubExpressions(ExpressionOf(program.Statements[1])) :
    /\ e.t = "InfixExpression"
         => /\ e.Left.t = "InfixExpression" => Level(e.Left.Operator) >= Level(e.Operator)
            /\ e.Right.t = "InfixExpression" => Level(e.Right.Operator) > Level(e.Operator)
    /\ e.t = "PrefixExpression" => e.Right.t # "InfixExpression"
    /\ e.t = "CallExpression" => e.Function.t \notin {"InfixExpression", "PrefixExpression"}
    /\ e.t = "IndexExpression" => e.Left.t \notin {"InfixExpression", "PrefixExpression"}

\* the levels of the infix operators: equality and the logical operators
\* lowest, then the comparisons, then sums, then products
LevelOfEqualsAndOr(op) ==
  CASE op \in {"equals", "not_equals", "and", "or"} -> 2
    [] op \in {"less", "greater", "less_equal", "greater_equal"} -> 3
    [] op \in {"adds", "subtracts", "minus", "-"} -> 4
    [] op \in {"times", "divides", "modulo"} -> 5

\* the levels the parser's table gives the operators
LevelOfPrecedences(op) == precedences[IF op = "-" THEN "MINUS" ELSE keywords[op]]

\* C22: a parsed expression nests its operators by the levels EQUALS
\* (equals, not_equals, and, or) < LESSGREATER (less, greater, less_equal,
\* greater_equal) < SUM (adds, subtracts, minus) < PRODUCT (times, divides,
\* modulo) < PREFIX < CALL < INDEX, operators of one level grouping from the
\* left: `a adds b times c` is (a adds (b times c)), `!a equals b` is
\* ((! a) equals b), `a less b and c less d` is ((a less b) and (c less d)).
C22_PrecedenceLevels ==
  program # NoNode => ParsedWhole /\ NestedBy(LevelOfEqualsAndOr)

\* the same with `and` and `or` at the level of the comparisons
C22_AndOrAmongComparisons ==
  program # NoNode => ParsedWhole /\ NestedBy(LevelOfPrecedences)

\* `a less b and c less d` has been parsed, as (((a less b) and c) less d)
C22_Witness ==
  /\ parser.l.input = <<"a", " ", "l", "e", "s", "s", " ", "b", " ", "a", "n", "d", " ", "c", " ",
                        "l", "e", "s", "s", " ", "d">>
  /\ program = [Statements |->
                  <<ExpressionStatement(
                      InfixExpression(
                        InfixExpression(InfixExpression(Identifier("a"), "less", Identifier("b")),
                                        "and", Identifier("c")),
                        "less", Identifier("d")))>>]


(***************************************************************************)
(* Reading the lines of a REPL session off repl.done.                      *)
(***************************************************************************)
Turns == 1..Len(repl.done)

\* the names bound in the session's environment behind turn i, and before
\* the first turn
BoundBehind(i) == IF i = 0 THEN {} ELSE DOMAIN repl.done[i].env[RootEnv].store

\* the line of turn j is nothing but the name n
ReadsName(j, n) == TrimSpace(repl.done[j].line) = <<n>>

\* C23: a name bound in the session's environment behind one line is bound
\* there behind every later line up to the next `.clear`, and a later line
\* that is that name evaluates to the value bound, never to `identifier not
\* found`; behind `.clear` no name is bound, so a line that is a name bound
\* only before it evaluates to `identifier not found`; `.exit` is the last
\* line read: Start has returned, the lines behind it stay unread and
\* nothing changes any more.
C23_SessionBindings ==
  /\ [](/\ \A j \in Turns :
             /\ repl.done[j].did # "clear" => BoundBehind(j - 1) \subseteq BoundBehind(j)
             /\ repl.done[j].did = "clear" => BoundBehind(j) = {}
             /\ \A n \in {"x", "y"} :
                  ReadsName(j, n)
                    => /\ repl.done[j].did = "evaluated"
                       /\ repl.done[j].val =
                            IF n \in BoundBehind(j - 1)
                              THEN repl.done[j - 1].env[RootEnv].store[n]
                              ELSE newError("identifier not found: " \o n)
             /\ repl.done[j].did = "exit" => j = Len(repl.done) /\ repl.state = "returned"
             /\ Slice(TrimSpace(repl.done[j].line)) = ".exit" => repl.done[j].did = "exit"
             /\ Slice(TrimSpace(repl.done[j].line)) = ".clear" => repl.done[j].did = "clear")
  /\ [][repl.state = "returned" => repl' = repl]_vars

\* `x is 5`, `x`, `.clear` and `x` have been read: the second line
\* evaluated to 5, the fourth to `identifier not found: x`
C23_Witness ==
  /\ Len(repl.done) = 4
  /\ Slice(repl.done[1].line) = "x is 5"
  /\ ReadsName(2, "x") /\ repl.done[2].val = Integer(5)
  /\ repl.done[3].did = "clear"
  /\ ReadsName(4, "x") /\ repl.done[4].val = newError("identifier not found: x")

====
